---- MODULE Spec2Model ----
(***************************************************************************)
(* Webhook ingestion and the database-backed sync job queue of grainlify:  *)
(* the webhook receiver (handlers/github_webhooks.go), the ingestor        *)
(* (package ingest), the sync trigger (handlers/sync.go) and the polling   *)
(* sync worker (syncjobs/worker.go), over the tables of migration 000003.  *)
(***************************************************************************)
EXTENDS Integers, Sequences, FiniteSets, TLC

(***************************************************************************)
(* Bounds of the model.                                                    *)
(***************************************************************************)
\* last value of the database clock now()
MaxTime == 1
\* cap on the number of sync_jobs rows
MaxJobs == 4
\* cap on messages waiting on the event bus
MaxBus == 1
\* bytes of a digest (32 for SHA-256)
DigestLen == 1

None == "none"

\* an optional record is a sequence of length 0 or 1
Absent == <<>>
Some(x) == <<x>>

(***************************************************************************)
(* Strings that the code inspects character by character are sequences of  *)
(* one-character strings.                                                  *)
(***************************************************************************)
SigPrefix == <<"s", "h", "a", "2", "5", "6", "=">>

hextable == <<"0", "1", "2", "3", "4", "5", "6", "7",
              "8", "9", "a", "b", "c", "d", "e", "f">>

\* strings.ToLower on one character
LowerChar(c) ==
  CASE c = "A" -> "a" [] c = "B" -> "b" [] c = "C" -> "c" [] c = "D" -> "d"
    [] c = "E" -> "e" [] c = "F" -> "f" [] c = "S" -> "s" [] c = "H" -> "h"
    [] OTHER -> c

UpperChar(c) ==
  CASE c = "a" -> "A" [] c = "b" -> "B" [] c = "c" -> "C" [] c = "d" -> "D"
    [] c = "e" -> "E" [] c = "f" -> "F" [] c = "s" -> "S" [] c = "h" -> "H"
    [] OTHER -> c

ToLower(s) == [i \in 1..Len(s) |-> LowerChar(s[i])]

ToUpper(s) == [i \in 1..Len(s) |-> UpperChar(s[i])]

HasPrefix(s, p) == Len(s) >= Len(p) /\ SubSeq(s, 1, Len(p)) = p

TrimPrefix(s, p) == IF HasPrefix(s, p) THEN SubSeq(s, Len(p) + 1, Len(s)) ELSE s

RECURSIVE TrimLeft(_)
TrimLeft(s) == IF s # <<>> /\ Head(s) = " " THEN TrimLeft(Tail(s)) ELSE s

RECURSIVE TrimRight(_)
TrimRight(s) ==
  IF s # <<>> /\ s[Len(s)] = " " THEN TrimRight(SubSeq(s, 1, Len(s) - 1)) ELSE s

\* strings.TrimSpace
TrimSpace(s) == TrimRight(TrimLeft(s))

RECURSIVE hexEncodeLower(_)
hexEncodeLower(b) ==
  IF b = <<>> THEN <<>>
  ELSE <<hextable[(Head(b) \div 16) + 1], hextable[(Head(b) % 16) + 1]>>
         \o hexEncodeLower(Tail(b))

\* subtle.ConstantTimeCompare: 1 when equal, 0 otherwise (also on a length mismatch)
ConstantTimeCompare(a, b) == IF Len(a) = Len(b) /\ a = b THEN 1 ELSE 0

(***************************************************************************)
(* Secrets and HMAC.  HMAC-SHA256 is a library primitive; it is modelled   *)
(* as a keyed function without collisions on the bodies of the model.      *)
(***************************************************************************)
NoSecret == ""
Secret1 == "whsec-1"
Secret2 == "whsec-2"

KeyCode(k) == IF k = Secret1 THEN 1 ELSE IF k = Secret2 THEN 2 ELSE 0

RECURSIVE IndexOf(_, _, _)
IndexOf(seq, x, i) ==
  IF i > Len(seq) THEN 0 ELSE IF seq[i] = x THEN i ELSE IndexOf(seq, x, i + 1)

(***************************************************************************)
(* Registered projects (owned by the registration subsystem, read-only     *)
(* here) and the users that call the sync trigger.                         *)
(***************************************************************************)
Projects == {[id |-> "p1", github_full_name |-> "acme/widgets", owner_user_id |-> "u1"]}

(***************************************************************************)
(* Webhook payload entities (ghIssuePayload, ghPullRequestPayload).        *)
(***************************************************************************)
WI_open ==
  [id |-> 101, number |-> 7, state |-> "open", title |-> "crash", body |-> "b1",
   html_url |-> "u/7", login |-> "alice",
   created_at |-> "T1", updated_at |-> "T1", closed_at |-> None]

WI_closed ==
  [id |-> 101, number |-> 7, state |-> "closed", title |-> "crash fixed", body |-> "b2",
   html_url |-> "u/7", login |-> "alice",
   created_at |-> "T1", updated_at |-> "T2", closed_at |-> "T2"]

\* another issue id carrying the number of WI_open
WI_clash ==
  [id |-> 102, number |-> 7, state |-> "open", title |-> "dup", body |-> "b3",
   html_url |-> "u/7", login |-> "bob",
   created_at |-> "T2", updated_at |-> "T2", closed_at |-> None]

WP_open ==
  [id |-> 201, number |-> 9, state |-> "open", title |-> "patch", body |-> "b4",
   html_url |-> "u/9", login |-> "carol", merged |-> FALSE, merged_at |-> None,
   created_at |-> "T1", updated_at |-> "T1", closed_at |-> None]

WP_merged ==
  [id |-> 201, number |-> 9, state |-> "closed", title |-> "patch", body |-> "b4",
   html_url |-> "u/9", login |-> "carol", merged |-> TRUE, merged_at |-> "T2",
   created_at |-> "T1", updated_at |-> "T2", closed_at |-> "T2"]

(***************************************************************************)
(* Request bodies.  kind "json" is a well-formed envelope; "typeerr" is    *)
(* valid JSON whose action field is not a string, so that json.Unmarshal   *)
(* returns an error after filling the other fields; "notjson" is not JSON  *)
(* at all.  ws says that the raw bytes hold insignificant whitespace.      *)
(***************************************************************************)
Body(kind, repo, action, issue, pr, ws) ==
  [kind |-> kind, repository |-> repo, action |-> action, issue |-> issue,
   pull_request |-> pr, ws |-> ws]

B_opened == Body("json", "acme/widgets", "opened", Some(WI_open), Absent, FALSE)
B_closed == Body("json", "acme/widgets", "closed", Some(WI_closed), Absent, TRUE)
B_clash == Body("json", "acme/widgets", "opened", Some(WI_clash), Absent, FALSE)
B_pr == Body("json", "acme/widgets", "opened", Absent, Some(WP_open), FALSE)
B_prmerged == Body("json", "acme/widgets", "closed", Absent, Some(WP_merged), FALSE)
B_push == Body("json", "acme/widgets", "", Absent, Absent, FALSE)
B_ghost == Body("json", "ghost/repo", "opened", Some(WI_open), Absent, FALSE)
B_norepo == Body("json", None, "ping", Absent, Absent, FALSE)
B_typeerr == Body("typeerr", "acme/widgets", "opened", Some(WI_open), Absent, FALSE)
B_garbage == Body("notjson", None, "", Absent, Absent, FALSE)

BodyList ==
  <<B_opened, B_closed, B_clash, B_pr, B_prmerged, B_push, B_ghost, B_norepo,
    B_typeerr, B_garbage>>

BodyCode(b) == IndexOf(BodyList, b, 1)

\* hmac.New(sha256.New, secret); mac.Write(body); mac.Sum(nil)
HMAC(secret, body) ==
  [i \in 1..DigestLen |-> (KeyCode(secret) * 97 + BodyCode(body) * 59 + i * 31) % 256]

\* mutant: a request without a signature header is let through
verifyGitHubSignatureSkipEmpty(secret, body, header) ==
  \/ header = <<>>
  \/ /\ HasPrefix(header, SigPrefix)
     /\ ToLower(TrimPrefix(header, SigPrefix)) = hexEncodeLower(HMAC(secret, body))

(***************************************************************************)
(* verifyGitHubSignature                                                   *)
(***************************************************************************)
verifyGitHubSignature(secret, body, header) ==
  IF ~HasPrefix(header, SigPrefix) THEN FALSE
  ELSE LET gotHex == ToLower(TrimPrefix(header, SigPrefix))
           wantHex == hexEncodeLower(HMAC(secret, body))
       IN ConstantTimeCompare(gotHex, wantHex) = 1

(***************************************************************************)
(* json.Unmarshal into the receiver's envelope (action, repository) and    *)
(* into the ingestor's envelope (action, repository, issue, pull_request). *)
(* A field of the wrong JSON type is skipped and reported as an error; a   *)
(* body that is not JSON leaves the envelope zero.                         *)
(***************************************************************************)
UnmarshalReceiver(body) ==
  [err |-> body.kind # "json",
   Action |-> IF body.kind = "json" THEN body.action ELSE "",
   Repository |-> IF body.kind = "notjson" THEN None ELSE body.repository]

UnmarshalIngest(payload) ==
  [err |-> payload.kind # "json",
   Action |-> IF payload.kind = "json" THEN payload.action ELSE "",
   Repository |-> IF payload.kind = "notjson" THEN None ELSE payload.repository,
   Issue |-> IF payload.kind = "notjson" THEN Absent ELSE payload.issue,
   PullRequest |-> IF payload.kind = "notjson" THEN Absent ELSE payload.pull_request]

\* the ::jsonb cast: fails on text that is not JSON, drops insignificant whitespace
IsJSON(payload) == payload.kind # "notjson"

ToJsonb(payload) == [payload EXCEPT !.ws = FALSE]

\* nullIfEmpty
nullIfEmpty(s) == IF s = "" THEN None ELSE s

(***************************************************************************)
(* State.                                                                  *)
(***************************************************************************)
VARIABLES
  cfg,                   \* handler configuration: webhook secret, bus, ingestor
  github_events,         \* audit table, primary key delivery_id
  github_issues,         \* issue snapshots
  github_pull_requests,  \* pull request snapshots
  sync_jobs,             \* job queue; a job's id is its position
  busQ,                  \* messages published on github.webhook.received
  now,                   \* the database clock
  resp,                  \* status code of the last HTTP response
  hist,                  \* what the last handler did (observation only)
  workers,               \* each sync worker's position in processOne
  claimLog,              \* every committed claim <<job, worker, k>>, k-th of the job
                         \* (observation only)
  remotePages            \* number of non-empty pages the external API lists

vars ==
  <<cfg, github_events, github_issues, github_pull_requests, sync_jobs, busQ, now,
    resp, hist, workers, claimLog, remotePages>>

\* SQL NULL in a timestamp column
NullTime == 0 - 1

(***************************************************************************)
(* SQL statements.  Each takes the table, the parameters, the value of     *)
(* now() and whether the statement fails in the database (fail = TRUE      *)
(* leaves the table as it is; the callers discard the error).              *)
(***************************************************************************)
\* SELECT id FROM projects WHERE github_full_name = $1
LookupProject(repoFullName, fail) ==
  IF fail \/ ~\E p \in Projects : p.github_full_name = repoFullName
  THEN None
  ELSE (CHOOSE p \in Projects : p.github_full_name = repoFullName).id

EventRow(e, projectID, repoFullName, action, t) ==
  [delivery_id |-> e.DeliveryID, project_id |-> projectID,
   repo_full_name |-> repoFullName, event |-> e.Event,
   action |-> nullIfEmpty(action), payload |-> ToJsonb(e.Payload),
   received_at |-> t]

\* mutant: the insert without its ON CONFLICT clause and without the key
InsertEventNoConflict(T, row, fail) ==
  IF fail \/ ~IsJSON(row.payload) THEN T ELSE T \cup {row}

\* mutant: ON CONFLICT (delivery_id) DO UPDATE, the later row replaces the earlier
InsertEventOverwrite(T, row, fail) ==
  IF fail \/ ~IsJSON(row.payload) THEN T
  ELSE {r \in T : r.delivery_id # row.delivery_id} \cup {row}

\* INSERT INTO github_events ... ON CONFLICT (delivery_id) DO NOTHING
InsertEvent(T, row, fail) ==
  IF fail \/ ~IsJSON(row.payload) THEN T
  ELSE IF \E r \in T : r.delivery_id = row.delivery_id THEN T
  ELSE T \cup {row}

\* UNIQUE (project_id, number): the number is held by a row of another entity
NumberTaken(T, pid, gid, idOf(_), number) ==
  \E r \in T : r.project_id = pid /\ r.number = number /\ idOf(r) # gid

IssueId(r) == r.github_issue_id

PrId(r) == r.github_pr_id

\* mutant: the ingestor's statement on a table without UNIQUE (project_id, number)
IngestUpsertIssueAnyNumber(T, pid, issue, t, fail) ==
  LET old == {r \in T : r.project_id = pid /\ r.github_issue_id = issue.id}
  IN IF fail THEN T
     ELSE IF old = {}
     THEN T \cup {[project_id |-> pid, github_issue_id |-> issue.id,
                   number |-> issue.number, state |-> issue.state,
                   title |-> issue.title, body |-> issue.body,
                   author_login |-> issue.login, url |-> issue.html_url,
                   created_at_github |-> issue.created_at,
                   updated_at_github |-> issue.updated_at,
                   closed_at_github |-> issue.closed_at,
                   assignees |-> <<>>, labels |-> <<>>, comments_count |-> 0,
                   comments |-> <<>>, last_seen_at |-> t]}
     ELSE (T \ old) \cup
          {[r EXCEPT !.number = issue.number, !.state = issue.state,
                     !.title = issue.title, !.body = issue.body,
                     !.author_login = issue.login, !.url = issue.html_url,
                     !.created_at_github = issue.created_at,
                     !.updated_at_github = issue.updated_at,
                     !.closed_at_github = issue.closed_at,
                     !.last_seen_at = t] : r \in old}

\* INSERT INTO github_issues (..., created_at_github, updated_at_github,
\* closed_at_github, last_seen_at) ... ON CONFLICT (project_id, github_issue_id)
\* DO UPDATE: the ingestor's statement
IngestUpsertIssue(T, pid, issue, t, fail) ==
  LET old == {r \in T : r.project_id = pid /\ r.github_issue_id = issue.id}
  IN IF fail \/ NumberTaken(T, pid, issue.id, IssueId, issue.number) THEN T
     ELSE IF old = {}
     THEN T \cup {[project_id |-> pid, github_issue_id |-> issue.id,
                   number |-> issue.number, state |-> issue.state,
                   title |-> issue.title, body |-> issue.body,
                   author_login |-> issue.login, url |-> issue.html_url,
                   created_at_github |-> issue.created_at,
                   updated_at_github |-> issue.updated_at,
                   closed_at_github |-> issue.closed_at,
                   assignees |-> <<>>, labels |-> <<>>, comments_count |-> 0,
                   comments |-> <<>>, last_seen_at |-> t]}
     ELSE (T \ old) \cup
          {[r EXCEPT !.number = issue.number, !.state = issue.state,
                     !.title = issue.title, !.body = issue.body,
                     !.author_login = issue.login, !.url = issue.html_url,
                     !.created_at_github = issue.created_at,
                     !.updated_at_github = issue.updated_at,
                     !.closed_at_github = issue.closed_at,
                     !.last_seen_at = t] : r \in old}

\* INSERT INTO github_pull_requests ... ON CONFLICT (project_id, github_pr_id)
\* DO UPDATE: the ingestor's statement
IngestUpsertPR(T, pid, pr, t, fail) ==
  LET old == {r \in T : r.project_id = pid /\ r.github_pr_id = pr.id}
  IN IF fail \/ NumberTaken(T, pid, pr.id, PrId, pr.number) THEN T
     ELSE IF old = {}
     THEN T \cup {[project_id |-> pid, github_pr_id |-> pr.id,
                   number |-> pr.number, state |-> pr.state,
                   title |-> pr.title, body |-> pr.body,
                   author_login |-> pr.login, url |-> pr.html_url,
                   merged |-> pr.merged, merged_at_github |-> pr.merged_at,
                   created_at_github |-> pr.created_at,
                   updated_at_github |-> pr.updated_at,
                   closed_at_github |-> pr.closed_at, last_seen_at |-> t]}
     ELSE (T \ old) \cup
          {[r EXCEPT !.number = pr.number, !.state = pr.state,
                     !.title = pr.title, !.body = pr.body,
                     !.author_login = pr.login, !.url = pr.html_url,
                     !.merged = pr.merged, !.merged_at_github = pr.merged_at,
                     !.created_at_github = pr.created_at,
                     !.updated_at_github = pr.updated_at,
                     !.closed_at_github = pr.closed_at,
                     !.last_seen_at = t] : r \in old}

\* a new sync_jobs row with the column defaults of the migration
JobRow(pid, jobType, t) ==
  [project_id |-> pid, job_type |-> jobType, status |-> "pending", run_at |-> t,
   attempts |-> 0, last_error |-> None, locked_at |-> NullTime, locked_by |-> None]

\* mutant: only the sync_issues row is inserted
InsertSyncJobsIssuesOnly(J, pid, t, fail) ==
  IF fail THEN J ELSE J \o <<JobRow(pid, "sync_issues", t)>>

\* mutant: nothing is inserted while the project has a pending job
InsertSyncJobsOnce(J, pid, t, fail) ==
  IF fail \/ \E i \in 1..Len(J) : J[i].project_id = pid /\ J[i].status = "pending" THEN J
  ELSE J \o <<JobRow(pid, "sync_issues", t), JobRow(pid, "sync_prs", t)>>

\* INSERT INTO sync_jobs (project_id, job_type, status, run_at) VALUES
\* ($1, 'sync_issues', 'pending', now()), ($1, 'sync_prs', 'pending', now())
InsertSyncJobs(J, pid, t, fail) ==
  IF fail THEN J
  ELSE J \o <<JobRow(pid, "sync_issues", t), JobRow(pid, "sync_prs", t)>>

(***************************************************************************)
(* GitHubWebhookIngestor.Ingest.  f says which of its statements fail in   *)
(* the database: the project lookup, the audit insert, the snapshot upsert *)
(* and the job insert.  The result is the four tables after the call; the  *)
(* call itself always returns nil.                                         *)
(***************************************************************************)
NoFault == [lookup |-> FALSE, audit |-> FALSE, snap |-> FALSE, jobs |-> FALSE]

Faults == [lookup : BOOLEAN, audit : BOOLEAN, snap : BOOLEAN, jobs : BOOLEAN]

AnyFault(f) == f.lookup \/ f.audit \/ f.snap \/ f.jobs

DB == [events |-> github_events, issues |-> github_issues,
       prs |-> github_pull_requests, jobs |-> sync_jobs]

IngestRepoFullName(e) ==
  LET env == UnmarshalIngest(e.Payload)
  IN IF e.RepoFullName = "" /\ env.Repository # None THEN env.Repository
     ELSE e.RepoFullName

\* mutant: a repository that no project is registered for falls back to a project
IngestProjectIDFallback(e, fail) ==
  IF IngestRepoFullName(e) # "" /\ LookupProject(IngestRepoFullName(e), fail) # None
  THEN LookupProject(IngestRepoFullName(e), fail)
  ELSE "p1"

IngestAction(e) ==
  LET env == UnmarshalIngest(e.Payload)
  IN IF e.Action = "" THEN env.Action ELSE e.Action

IngestProjectID(e, fail) ==
  IF IngestRepoFullName(e) # "" THEN LookupProject(IngestRepoFullName(e), fail)
  ELSE None

\* the event types after which follow-up jobs are enqueued
JobEvents == {"issues", "pull_request", "push"}

\* mutant: job creation deduplicated by delivery identifier
EnqueuesJobsDedup(e, projectID) ==
  /\ projectID # None
  /\ e.Event \in JobEvents
  /\ ~\E r \in github_events : r.delivery_id = e.DeliveryID

EnqueuesJobs(e, projectID) == projectID # None /\ e.Event \in JobEvents

\* mutant: Ingest returns at the first statement that fails
IngestStopAtError(db, e, t, f) ==
  LET env == UnmarshalIngest(e.Payload)
      projectID == IngestProjectID(e, f.lookup)
      events1 ==
        IF e.DeliveryID # ""
        THEN InsertEvent(db.events,
                         EventRow(e, projectID, IngestRepoFullName(e), IngestAction(e), t),
                         f.audit)
        ELSE db.events
      issues1 ==
        IF projectID # None /\ e.Event = "issues" /\ env.Issue # Absent /\ ~f.audit
        THEN IngestUpsertIssue(db.issues, projectID, env.Issue[1], t, f.snap)
        ELSE db.issues
      prs1 ==
        IF projectID # None /\ e.Event \in {"pull_request", "pull_request_review"}
           /\ env.PullRequest # Absent /\ ~f.audit
        THEN IngestUpsertPR(db.prs, projectID, env.PullRequest[1], t, f.snap)
        ELSE db.prs
      jobs1 ==
        IF EnqueuesJobs(e, projectID) /\ ~f.audit /\ ~f.snap
        THEN InsertSyncJobs(db.jobs, projectID, t, f.jobs)
        ELSE db.jobs
  IN [events |-> events1, issues |-> issues1, prs |-> prs1, jobs |-> jobs1]

\* mutant: an event without delivery identifier is not ingested
IngestNeedsDelivery(db, e, t, f) ==
  LET env == UnmarshalIngest(e.Payload)
      projectID == IngestProjectID(e, f.lookup)
      events1 ==
        IF e.DeliveryID # ""
        THEN InsertEvent(db.events,
                         EventRow(e, projectID, IngestRepoFullName(e), IngestAction(e), t),
                         f.audit)
        ELSE db.events
      issues1 ==
        IF projectID # None /\ e.Event = "issues" /\ env.Issue # Absent
        THEN IngestUpsertIssue(db.issues, projectID, env.Issue[1], t, f.snap)
        ELSE db.issues
      prs1 ==
        IF projectID # None /\ e.Event \in {"pull_request", "pull_request_review"}
           /\ env.PullRequest # Absent
        THEN IngestUpsertPR(db.prs, projectID, env.PullRequest[1], t, f.snap)
        ELSE db.prs
      jobs1 ==
        IF EnqueuesJobs(e, projectID)
        THEN InsertSyncJobs(db.jobs, projectID, t, f.jobs)
        ELSE db.jobs
  IN IF e.DeliveryID = "" THEN db
     ELSE [events |-> events1, issues |-> issues1, prs |-> prs1, jobs |-> jobs1]

Ingest(db, e, t, f) ==
  LET env == UnmarshalIngest(e.Payload)
      projectID == IngestProjectID(e, f.lookup)
      events1 ==
        IF e.DeliveryID # ""
        THEN InsertEvent(db.events,
                         EventRow(e, projectID, IngestRepoFullName(e), IngestAction(e), t),
                         f.audit)
        ELSE db.events
      issues1 ==
        IF projectID # None /\ e.Event = "issues" /\ env.Issue # Absent
        THEN IngestUpsertIssue(db.issues, projectID, env.Issue[1], t, f.snap)
        ELSE db.issues
      prs1 ==
        IF projectID # None /\ e.Event \in {"pull_request", "pull_request_review"}
           /\ env.PullRequest # Absent
        THEN IngestUpsertPR(db.prs, projectID, env.PullRequest[1], t, f.snap)
        ELSE db.prs
      jobs1 ==
        IF EnqueuesJobs(e, projectID)
        THEN InsertSyncJobs(db.jobs, projectID, t, f.jobs)
        ELSE db.jobs
  IN [events |-> events1, issues |-> issues1, prs |-> prs1, jobs |-> jobs1]

(***************************************************************************)
(* The event published on the bus: json.Marshal of GitHubWebhookReceived   *)
(* (a RawMessage payload that is not JSON makes Marshal fail, one that is  *)
(* JSON is compacted) and the consumer's json.Unmarshal.                   *)
(***************************************************************************)
Event(delivery, event, action, repo, payload) ==
  [DeliveryID |-> delivery, Event |-> event, Action |-> action,
   RepoFullName |-> repo, Payload |-> payload]

\* mutant: json.Marshal never fails
MarshalErrNever(ev) == FALSE

MarshalErr(ev) == ~IsJSON(ev.Payload)

\* mutant: the delivery identifier is left out of the bus message
MarshalEventNoDelivery(ev) ==
  [delivery_id |-> "", event |-> ev.Event, action |-> ev.Action,
   repo_full_name |-> ev.RepoFullName, payload |-> [ev.Payload EXCEPT !.ws = FALSE]]

MarshalEvent(ev) ==
  [delivery_id |-> ev.DeliveryID, event |-> ev.Event, action |-> ev.Action,
   repo_full_name |-> ev.RepoFullName, payload |-> [ev.Payload EXCEPT !.ws = FALSE]]

UnmarshalEvent(data) ==
  Event(data.delivery_id, data.event, data.action, data.repo_full_name, data.payload)

(***************************************************************************)
(* HTTP requests to POST /webhooks/github.                                 *)
(***************************************************************************)
Request(delivery, event, body, sig) ==
  [delivery |-> delivery, event |-> event, body |-> body, sig |-> sig]

\* mutant: the fields decoded before the error are used
ReceivedEventPartial(req) ==
  LET env == UnmarshalReceiver(req.body)
      repoFullName == IF env.Repository # None THEN env.Repository ELSE ""
  IN Event(req.delivery, req.event, env.Action, repoFullName, req.body)

\* the event the receiver builds from a request whose signature it accepted
ReceivedEvent(req) ==
  LET env == UnmarshalReceiver(req.body)
      repoFullName == IF ~env.err /\ env.Repository # None THEN env.Repository ELSE ""
      action == IF ~env.err THEN env.Action ELSE ""
  IN Event(req.delivery, req.event, action, repoFullName, req.body)

\* the status sent once the signature is accepted, after the publish or the
\* inline ingestion, whatever their outcome
\* mutant: a failed publish is reported to the caller
StatusAfterPublishSurfaced(pubErr) == IF pubErr THEN 502 ELSE 200

StatusAfterPublish(pubErr) == 200

StatusAfterIngest(ingestErr) == 200

\* hist: the last handler call (op), the request it answered (req), the event it
\* ingested (ev), whether the call before it ingested the same event (again),
\* whether a statement failed in this run of ingestions of the event (fault),
\* and what became of the publish (pub)
NoHist ==
  [op |-> "none", req |-> Absent, ev |-> Absent, again |-> FALSE, fault |-> FALSE,
   pub |-> "none"]

ReceiveHist(req, pub) == [NoHist EXCEPT !.op = "receive", !.req = Some(req), !.pub = pub]

IngestHist(op, req, e, f) ==
  [op |-> op, req |-> req, ev |-> Some(e), again |-> (hist.ev = Some(e)),
   fault |-> AnyFault(f) \/ (hist.ev = Some(e) /\ hist.fault), pub |-> "none"]

ApplyDB(db) ==
  /\ Len(db.jobs) <= MaxJobs
  /\ github_events' = db.events
  /\ github_issues' = db.issues
  /\ github_pull_requests' = db.prs
  /\ sync_jobs' = db.jobs

UnchangedDB == UNCHANGED <<github_events, github_issues, github_pull_requests, sync_jobs>>

\* GitHubWebhooksHandler.Receive, for a POST request
Receive(req, f, pubOk) ==
  LET sig == TrimSpace(req.sig)
      ev == ReceivedEvent(req)
  IN /\ UNCHANGED <<cfg, now, workers, claimLog, remotePages>>
     /\ IF cfg.secret = NoSecret
        THEN /\ resp' = 503
             /\ hist' = ReceiveHist(req, "none")
             /\ UnchangedDB /\ UNCHANGED busQ
        ELSE IF ~verifyGitHubSignature(cfg.secret, req.body, sig)
        THEN /\ resp' = 401
             /\ hist' = ReceiveHist(req, "none")
             /\ UnchangedDB /\ UNCHANGED busQ
        ELSE IF cfg.bus
        THEN /\ UnchangedDB
             /\ IF MarshalErr(ev)
                THEN /\ UNCHANGED busQ
                     /\ hist' = ReceiveHist(req, "marshal")
                     /\ resp' = StatusAfterPublish(FALSE)
                ELSE IF pubOk
                THEN /\ Len(busQ) < MaxBus
                     /\ busQ' = Append(busQ, MarshalEvent(ev))
                     /\ hist' = ReceiveHist(req, "ok")
                     /\ resp' = StatusAfterPublish(FALSE)
                ELSE /\ UNCHANGED busQ
                     /\ hist' = ReceiveHist(req, "failed")
                     /\ resp' = StatusAfterPublish(TRUE)
        ELSE IF cfg.ing
        THEN /\ ApplyDB(Ingest(DB, ev, now, f))
             /\ UNCHANGED busQ
             /\ hist' = IngestHist("receive", Some(req), ev, f)
             /\ resp' = StatusAfterIngest(FALSE)
        ELSE /\ UnchangedDB /\ UNCHANGED busQ
             /\ hist' = ReceiveHist(req, "none")
             /\ resp' = StatusAfterIngest(FALSE)

\* GitHubWebhookConsumer: the subscription callback, for one bus message
Consume(i, f) ==
  LET e == UnmarshalEvent(busQ[i])
  IN /\ busQ' = SubSeq(busQ, 1, i - 1) \o SubSeq(busQ, i + 1, Len(busQ))
     /\ ApplyDB(Ingest(DB, e, now, f))
     /\ hist' = IngestHist("consume", Absent, e, f)
     /\ UNCHANGED <<cfg, now, resp, workers, claimLog, remotePages>>

\* the database clock advances
Tick ==
  /\ now < MaxTime
  /\ now' = now + 1
  /\ UNCHANGED <<cfg, github_events, github_issues, github_pull_requests, sync_jobs,
                 busQ, resp, hist, workers, claimLog,
                 remotePages>>

(***************************************************************************)
(* The external API: what ListIssuesPage, ListPRsPage and                  *)
(* ListIssueComments return for the project's repository.                  *)
(***************************************************************************)
AI_101 ==
  [id |-> 101, number |-> 7, state |-> "open", title |-> "crash again", body |-> "b5",
   html_url |-> "u/7", login |-> "alice", assignees |-> <<[login |-> "bob"]>>,
   labels |-> <<[name |-> "bug", color |-> "f00"]>>, comments |-> 1,
   pull_request |-> FALSE]

\* the issues endpoint also lists pull requests, marked by pull_request
AI_201 ==
  [id |-> 201, number |-> 9, state |-> "open", title |-> "patch", body |-> "b4",
   html_url |-> "u/9", login |-> "carol", assignees |-> <<>>, labels |-> <<>>,
   comments |-> 1, pull_request |-> TRUE]

AP_201 ==
  [id |-> 201, number |-> 9, state |-> "closed", title |-> "patch v2", body |-> "b6",
   html_url |-> "u/9", login |-> "carol", merged |-> TRUE]

\* the one issue on a page after the first
AI_page(page) ==
  [AI_101 EXCEPT !.id = 100 + page, !.number = 20 + page, !.assignees = <<>>,
                 !.labels = <<>>, !.comments = 0]

\* the one pull request on a page after the first
AP_page(page) == [AP_201 EXCEPT !.id = 200 + page, !.number = 30 + page]

RemoteIssues(page) ==
  IF page > remotePages THEN <<>>
  ELSE IF page = 1 THEN <<AI_101, AI_201>>
  ELSE <<AI_page(page)>>

RemotePRs(page) ==
  IF page > remotePages THEN <<>>
  ELSE IF page = 1 THEN <<AP_201>>
  ELSE <<AP_page(page)>>

RemotePage(jobType, page) ==
  IF jobType = "sync_issues" THEN RemoteIssues(page) ELSE RemotePRs(page)

RemoteComments(number) == <<[id |-> 1, body |-> "me too", login |-> "dave"]>>

(***************************************************************************)
(* The worker's statements on the snapshot tables.                         *)
(***************************************************************************)
\* mutant: ON CONFLICT (project_id, github_issue_id) DO NOTHING
SyncUpsertIssueKeepOld(T, pid, it, comments, t, fail) ==
  LET old == {r \in T : r.project_id = pid /\ r.github_issue_id = it.id}
  IN IF fail \/ NumberTaken(T, pid, it.id, IssueId, it.number) \/ old # {} THEN T
     ELSE T \cup {[project_id |-> pid, github_issue_id |-> it.id,
                   number |-> it.number, state |-> it.state,
                   title |-> it.title, body |-> it.body,
                   author_login |-> it.login, url |-> it.html_url,
                   created_at_github |-> None, updated_at_github |-> None,
                   closed_at_github |-> None,
                   assignees |-> it.assignees, labels |-> it.labels,
                   comments_count |-> it.comments, comments |-> comments,
                   last_seen_at |-> t]}

\* mutant: the table without its UNIQUE (project_id, number) constraint
SyncUpsertIssueAnyNumber(T, pid, it, comments, t, fail) ==
  LET old == {r \in T : r.project_id = pid /\ r.github_issue_id = it.id}
  IN IF fail THEN T
     ELSE IF old = {}
     THEN T \cup {[project_id |-> pid, github_issue_id |-> it.id,
                   number |-> it.number, state |-> it.state,
                   title |-> it.title, body |-> it.body,
                   author_login |-> it.login, url |-> it.html_url,
                   created_at_github |-> None, updated_at_github |-> None,
                   closed_at_github |-> None,
                   assignees |-> it.assignees, labels |-> it.labels,
                   comments_count |-> it.comments, comments |-> comments,
                   last_seen_at |-> t]}
     ELSE (T \ old) \cup
          {[r EXCEPT !.number = it.number, !.state = it.state,
                     !.title = it.title, !.body = it.body,
                     !.author_login = it.login, !.url = it.html_url,
                     !.assignees = it.assignees, !.labels = it.labels,
                     !.comments_count = it.comments, !.comments = comments,
                     !.last_seen_at = t] : r \in old}

\* mutant: ON CONFLICT ... DO UPDATE SET comments = github_issues.comments || EXCLUDED.comments
SyncUpsertIssueAppend(T, pid, it, comments, t, fail) ==
  LET old == {r \in T : r.project_id = pid /\ r.github_issue_id = it.id}
  IN IF fail \/ NumberTaken(T, pid, it.id, IssueId, it.number) THEN T
     ELSE IF old = {}
     THEN T \cup {[project_id |-> pid, github_issue_id |-> it.id,
                   number |-> it.number, state |-> it.state,
                   title |-> it.title, body |-> it.body,
                   author_login |-> it.login, url |-> it.html_url,
                   created_at_github |-> None, updated_at_github |-> None,
                   closed_at_github |-> None,
                   assignees |-> it.assignees, labels |-> it.labels,
                   comments_count |-> it.comments, comments |-> comments,
                   last_seen_at |-> t]}
     ELSE (T \ old) \cup
          {[r EXCEPT !.number = it.number, !.state = it.state,
                     !.title = it.title, !.body = it.body,
                     !.author_login = it.login, !.url = it.html_url,
                     !.assignees = it.assignees, !.labels = it.labels,
                     !.comments_count = it.comments, !.comments = @ \o comments,
                     !.last_seen_at = t] : r \in old}

\* INSERT INTO github_issues (..., assignees, labels, comments_count, comments,
\* last_seen_at) ... ON CONFLICT (project_id, github_issue_id) DO UPDATE
SyncUpsertIssue(T, pid, it, comments, t, fail) ==
  LET old == {r \in T : r.project_id = pid /\ r.github_issue_id = it.id}
  IN IF fail \/ NumberTaken(T, pid, it.id, IssueId, it.number) THEN T
     ELSE IF old = {}
     THEN T \cup {[project_id |-> pid, github_issue_id |-> it.id,
                   number |-> it.number, state |-> it.state,
                   title |-> it.title, body |-> it.body,
                   author_login |-> it.login, url |-> it.html_url,
                   created_at_github |-> None, updated_at_github |-> None,
                   closed_at_github |-> None,
                   assignees |-> it.assignees, labels |-> it.labels,
                   comments_count |-> it.comments, comments |-> comments,
                   last_seen_at |-> t]}
     ELSE (T \ old) \cup
          {[r EXCEPT !.number = it.number, !.state = it.state,
                     !.title = it.title, !.body = it.body,
                     !.author_login = it.login, !.url = it.html_url,
                     !.assignees = it.assignees, !.labels = it.labels,
                     !.comments_count = it.comments, !.comments = comments,
                     !.last_seen_at = t] : r \in old}

\* INSERT INTO github_pull_requests (..., merged, last_seen_at) ...
\* ON CONFLICT (project_id, github_pr_id) DO UPDATE
SyncUpsertPR(T, pid, it, t, fail) ==
  LET old == {r \in T : r.project_id = pid /\ r.github_pr_id = it.id}
  IN IF fail \/ NumberTaken(T, pid, it.id, PrId, it.number) THEN T
     ELSE IF old = {}
     THEN T \cup {[project_id |-> pid, github_pr_id |-> it.id,
                   number |-> it.number, state |-> it.state,
                   title |-> it.title, body |-> it.body,
                   author_login |-> it.login, url |-> it.html_url,
                   merged |-> it.merged, merged_at_github |-> None,
                   created_at_github |-> None, updated_at_github |-> None,
                   closed_at_github |-> None, last_seen_at |-> t]}
     ELSE (T \ old) \cup
          {[r EXCEPT !.number = it.number, !.state = it.state,
                     !.title = it.title, !.body = it.body,
                     !.author_login = it.login, !.url = it.html_url,
                     !.merged = it.merged, !.last_seen_at = t] : r \in old}

(***************************************************************************)
(* Sync workers.  A worker is idle between ticks; processOne takes it      *)
(* through                                                                 *)
(*   tx      BeginTx done, now() of the transaction fixed                  *)
(*   scan    the SELECT has taken its snapshot: cand are the rows it saw   *)
(*   locked  the SELECT returned job, whose row lock the transaction holds *)
(*   run     claim committed, runJob resolving the credential              *)
(*   page    about to wait on the limiter and fetch page                   *)
(*   item    about to handle items[idx]                                    *)
(*   stmt    the upsert of items[idx] has started (now() = ts), not yet    *)
(*           written the row                                               *)
(*   finish  runJob returned err ("" for nil)                              *)
(***************************************************************************)
\* number of worker instances
NumWorkers == 2

Workers == 1..NumWorkers

\* the page ceiling of syncIssues and syncPRs
MaxPages == 50

IdleWorker ==
  [pc |-> "idle", job |-> 0, txnow |-> 0, cand |-> {}, page |-> 0, items |-> <<>>,
   idx |-> 0, ts |-> 0, comments |-> <<>>, err |-> "", calls |-> <<>>,
   ccalls |-> <<>>]

WorkerID(w) == w

\* the row lock taken by SELECT ... FOR UPDATE, held until commit or rollback
HoldsRowLock(w, j) == workers[w].pc = "locked" /\ workers[w].job = j

LockedByOther(w, j) == \E o \in Workers \ {w} : HoldsRowLock(o, j)

\* mutant: the claim query also takes running jobs
ClaimQualStale(row, txnow) == row.status \in {"pending", "running"} /\ row.run_at <= txnow

\* mutant: the claim query also takes failed jobs
ClaimQualRetry(row, txnow) == row.status \in {"pending", "failed"} /\ row.run_at <= txnow

\* mutant: the claim query takes only jobs whose run_at is in the past
ClaimQualPast(row, txnow) == row.status = "pending" /\ row.run_at < txnow

\* the WHERE clause of the claim query, on the current version of a row
ClaimQual(row, txnow) == row.status = "pending" /\ row.run_at <= txnow

\* mutant: rows are taken from the snapshot without the re-check of their
\* current version
LockableNoRecheck(w) == {j \in workers[w].cand : ~LockedByOther(w, j)}

\* FOR UPDATE SKIP LOCKED: of the rows the snapshot saw, those that another
\* transaction has not locked and whose current version still satisfies WHERE
Lockable(w) ==
  {j \in workers[w].cand :
     ~LockedByOther(w, j) /\ ClaimQual(sync_jobs[j], workers[w].txnow)}

\* mutant: LIMIT 1 without the ORDER BY
FirstOfAny(S) == S

\* ORDER BY run_at ASC LIMIT 1
FirstByRunAt(S) == {j \in S : \A k \in S : sync_jobs[j].run_at <= sync_jobs[k].run_at}

WorkerFrame == UNCHANGED <<cfg, github_events, busQ, now, resp, hist, remotePages>>

ClaimsOf(j) == {c \in claimLog : c[1] = j}

\* w.pool.BeginTx
BeginTx(w) ==
  /\ workers[w].pc = "idle"
  /\ workers' = [workers EXCEPT ![w] = [IdleWorker EXCEPT !.pc = "tx", !.txnow = now]]
  /\ UNCHANGED <<sync_jobs, github_issues, github_pull_requests, claimLog>>
  /\ WorkerFrame

\* the claim query takes its snapshot of sync_jobs
SelectSnapshot(w) ==
  /\ workers[w].pc = "tx"
  /\ workers' = [workers EXCEPT ![w].pc = "scan",
                                ![w].cand = {j \in 1..Len(sync_jobs) :
                                               ClaimQual(sync_jobs[j], workers[w].txnow)}]
  /\ UNCHANGED <<sync_jobs, github_issues, github_pull_requests, claimLog>>
  /\ WorkerFrame

\* the claim query locks and returns a row, or returns pgx.ErrNoRows and
\* processOne rolls back
SelectLock(w) ==
  /\ workers[w].pc = "scan"
  /\ IF Lockable(w) = {}
     THEN workers' = [workers EXCEPT ![w] = IdleWorker]
     ELSE \E j \in FirstByRunAt(Lockable(w)) :
            workers' = [workers EXCEPT ![w].pc = "locked", ![w].job = j, ![w].cand = {}]
  /\ UNCHANGED <<sync_jobs, github_issues, github_pull_requests, claimLog>>
  /\ WorkerFrame

\* mutant: the transaction is left open while the job runs, its UPDATE is not
\* visible to others
ClaimedRowUncommitted(row, w) == row

\* UPDATE sync_jobs SET status = 'running', locked_at = now(), locked_by = $2
\* WHERE id = $1, then tx.Commit
ClaimedRow(row, w) ==
  [row EXCEPT !.status = "running", !.locked_at = workers[w].txnow,
              !.locked_by = WorkerID(w)]

CommitClaim(w) ==
  /\ workers[w].pc = "locked"
  /\ sync_jobs' = [sync_jobs EXCEPT ![workers[w].job] = ClaimedRow(@, w)]
  /\ workers' = [workers EXCEPT ![w].pc = "run"]
  /\ claimLog' = claimLog \cup
                   {<<workers[w].job, w, Cardinality(ClaimsOf(workers[w].job)) + 1>>}
  /\ UNCHANGED <<github_issues, github_pull_requests>>
  /\ WorkerFrame

\* the UPDATE or the commit fails: processOne returns and the deferred
\* Rollback releases the row
RollbackClaim(w) ==
  /\ workers[w].pc = "locked"
  /\ workers' = [workers EXCEPT ![w] = IdleWorker]
  /\ UNCHANGED <<sync_jobs, github_issues, github_pull_requests, claimLog>>
  /\ WorkerFrame

\* runJob: the project row and the owner's linked account are read
ResolveCredential(w, ok) ==
  /\ workers[w].pc = "run"
  /\ workers' = IF ok THEN [workers EXCEPT ![w].pc = "page", ![w].page = 1]
                ELSE [workers EXCEPT ![w].pc = "finish", ![w].err = "github_not_linked"]
  /\ UNCHANGED <<sync_jobs, github_issues, github_pull_requests, claimLog>>
  /\ WorkerFrame

\* mutant: the loop without its page ceiling
AfterItemNoCeiling(wk) ==
  IF wk.idx < Len(wk.items)
  THEN [wk EXCEPT !.pc = "item", !.idx = wk.idx + 1, !.comments = <<>>, !.ts = 0]
  ELSE [wk EXCEPT !.pc = "page", !.page = wk.page + 1, !.items = <<>>, !.idx = 0,
                  !.comments = <<>>, !.ts = 0]

\* mutant: the loop ends after the last item of a page
AfterItemStopEarly(wk) ==
  IF wk.idx < Len(wk.items)
  THEN [wk EXCEPT !.pc = "item", !.idx = wk.idx + 1, !.comments = <<>>, !.ts = 0]
  ELSE [wk EXCEPT !.pc = "finish", !.err = "", !.items = <<>>, !.idx = 0,
                  !.comments = <<>>, !.ts = 0, !.page = 0]

\* the position after items[idx]: the next item, the next page, or the end of
\* the loop at the page ceiling
AfterItem(wk) ==
  IF wk.idx < Len(wk.items)
  THEN [wk EXCEPT !.pc = "item", !.idx = wk.idx + 1, !.comments = <<>>, !.ts = 0]
  ELSE IF wk.page + 1 <= MaxPages
  THEN [wk EXCEPT !.pc = "page", !.page = wk.page + 1, !.items = <<>>, !.idx = 0,
                  !.comments = <<>>, !.ts = 0]
  ELSE [wk EXCEPT !.pc = "finish", !.err = "", !.items = <<>>, !.idx = 0,
                  !.comments = <<>>, !.ts = 0, !.page = 0]

\* the error of limiter.Wait under a cancelled context
WaitErr == "context canceled"

\* limiter.Wait, then ListIssuesPage or ListPRsPage; calls is the list of pages
\* requested so far in this run (observation only)
FetchPage(w, outcome) ==
  LET wk == workers[w]
      items == RemotePage(sync_jobs[wk.job].job_type, wk.page)
      calls == IF outcome = WaitErr THEN wk.calls ELSE Append(wk.calls, wk.page)
  IN /\ wk.pc = "page"
     /\ workers' =
          IF outcome # "ok"
          THEN [workers EXCEPT ![w].pc = "finish", ![w].err = outcome, ![w].page = 0,
                               ![w].calls = calls]
          ELSE IF Len(items) = 0
          THEN [workers EXCEPT ![w].pc = "finish", ![w].err = "", ![w].page = 0,
                               ![w].calls = calls]
          ELSE [workers EXCEPT ![w].pc = "item", ![w].items = items, ![w].idx = 1,
                               ![w].calls = calls]
     /\ UNCHANGED <<sync_jobs, github_issues, github_pull_requests, claimLog>>
     /\ WorkerFrame

\* mutant: the loop over items without the test of the pull_request marker
StartItemNoSkip(w, commentsOk) ==
  LET wk == workers[w]
      it == wk.items[wk.idx]
      isIssues == sync_jobs[wk.job].job_type = "sync_issues"
      fetches == isIssues /\ it.comments > 0
  IN /\ wk.pc = "item"
     /\ workers' =
          [workers EXCEPT ![w].pc = "stmt", ![w].ts = now,
                          ![w].comments =
                            IF fetches /\ commentsOk
                            THEN RemoteComments(it.number) ELSE <<>>,
                          ![w].ccalls =
                            IF fetches THEN Append(wk.ccalls, it.number)
                            ELSE wk.ccalls]
     /\ UNCHANGED <<sync_jobs, github_issues, github_pull_requests, claimLog>>
     /\ WorkerFrame

\* mutant: the comments are fetched whatever the comment count
StartItemAlwaysFetch(w, commentsOk) ==
  LET wk == workers[w]
      it == wk.items[wk.idx]
      isIssues == sync_jobs[wk.job].job_type = "sync_issues"
  IN /\ wk.pc = "item"
     /\ workers' =
          IF isIssues /\ it.pull_request
          THEN [workers EXCEPT ![w] = AfterItem(wk)]
          ELSE [workers EXCEPT ![w].pc = "stmt", ![w].ts = now,
                               ![w].comments =
                                 IF isIssues /\ commentsOk
                                 THEN RemoteComments(it.number) ELSE <<>>,
                               ![w].ccalls =
                                 IF isIssues THEN Append(wk.ccalls, it.number)
                                 ELSE wk.ccalls]
     /\ UNCHANGED <<sync_jobs, github_issues, github_pull_requests, claimLog>>
     /\ WorkerFrame

\* mutant: an issue whose comment fetch failed is skipped
StartItemSkipOnError(w, commentsOk) ==
  LET wk == workers[w]
      it == wk.items[wk.idx]
      isIssues == sync_jobs[wk.job].job_type = "sync_issues"
      fetches == isIssues /\ it.comments > 0
  IN /\ wk.pc = "item"
     /\ workers' =
          IF isIssues /\ it.pull_request
          THEN [workers EXCEPT ![w] = AfterItem(wk)]
          ELSE IF fetches /\ ~commentsOk
          THEN [workers EXCEPT ![w] = [AfterItem(wk) EXCEPT
                                         !.ccalls = Append(wk.ccalls, it.number)]]
          ELSE [workers EXCEPT ![w].pc = "stmt", ![w].ts = now,
                               ![w].comments =
                                 IF fetches THEN RemoteComments(it.number) ELSE <<>>,
                               ![w].ccalls =
                                 IF fetches THEN Append(wk.ccalls, it.number)
                                 ELSE wk.ccalls]
     /\ UNCHANGED <<sync_jobs, github_issues, github_pull_requests, claimLog>>
     /\ WorkerFrame

\* one turn of the loop over items, up to the start of the upsert: a pull
\* request met by syncIssues is skipped; the comments of an issue that has some
\* are fetched (a failed fetch leaves "[]"); ccalls is the list of issue
\* numbers whose comments were requested so far in this run (observation only)
StartItem(w, commentsOk) ==
  LET wk == workers[w]
      it == wk.items[wk.idx]
      isIssues == sync_jobs[wk.job].job_type = "sync_issues"
      fetches == isIssues /\ it.comments > 0
  IN /\ wk.pc = "item"
     /\ workers' =
          IF isIssues /\ it.pull_request
          THEN [workers EXCEPT ![w] = AfterItem(wk)]
          ELSE [workers EXCEPT ![w].pc = "stmt", ![w].ts = now,
                               ![w].comments =
                                 IF fetches /\ commentsOk
                                 THEN RemoteComments(it.number) ELSE <<>>,
                               ![w].ccalls =
                                 IF fetches THEN Append(wk.ccalls, it.number)
                                 ELSE wk.ccalls]
     /\ UNCHANGED <<sync_jobs, github_issues, github_pull_requests, claimLog>>
     /\ WorkerFrame

\* the limiter wait before the comment call fails, which it does only under a
\* cancelled context: no call is made and "[]" is kept, the upsert of the
\* item and of the items after it on the page is refused by the pool (and
\* their comment waits fail too), and the wait before the next page returns
\* the error; taken as one step, below the page ceiling
CommentWaitFails(w) ==
  LET wk == workers[w]
      it == wk.items[wk.idx]
  IN /\ wk.pc = "item"
     /\ wk.page < MaxPages
     /\ sync_jobs[wk.job].job_type = "sync_issues"
     /\ ~it.pull_request /\ it.comments > 0
     /\ workers' = [workers EXCEPT ![w].pc = "finish", ![w].err = WaitErr, ![w].page = 0,
                                   ![w].items = <<>>, ![w].idx = 0]
     /\ UNCHANGED <<sync_jobs, github_issues, github_pull_requests, claimLog>>
     /\ WorkerFrame

\* the upsert of items[idx] writes its row; its error is discarded
ApplyUpsert(w, fail) ==
  LET wk == workers[w]
      it == wk.items[wk.idx]
      pid == sync_jobs[wk.job].project_id
  IN /\ wk.pc = "stmt"
     /\ IF sync_jobs[wk.job].job_type = "sync_issues"
        THEN /\ github_issues' = SyncUpsertIssue(github_issues, pid, it, wk.comments, wk.ts, fail)
             /\ UNCHANGED github_pull_requests
        ELSE /\ github_pull_requests' = SyncUpsertPR(github_pull_requests, pid, it, wk.ts, fail)
             /\ UNCHANGED github_issues
     /\ workers' = [workers EXCEPT ![w] = AfterItem(wk)]
     /\ UNCHANGED <<sync_jobs, claimLog>>
     /\ WorkerFrame

\* mutant: the error of runJob is dropped
FinalStatusCompleted(err) == "completed"

\* mutant: a job whose run failed is put back in the queue
FinalStatusRequeue(err) == IF err # "" THEN "pending" ELSE "completed"

\* status := "completed", or "failed" when runJob returned an error
FinalStatus(err) == IF err # "" THEN "failed" ELSE "completed"

\* mutant: the final UPDATE leaves attempts alone
FinishedRowNoCount(row, err) ==
  [row EXCEPT !.status = FinalStatus(err), !.last_error = nullIfEmpty(err)]

\* mutant: the final UPDATE leaves last_error alone
FinishedRowNoText(row, err) ==
  [row EXCEPT !.status = FinalStatus(err), !.attempts = row.attempts + 1]

\* UPDATE sync_jobs SET status = $2, attempts = attempts + 1,
\* last_error = NULLIF($3, '') WHERE id = $1; its error is discarded
FinishedRow(row, err) ==
  [row EXCEPT !.status = FinalStatus(err), !.attempts = row.attempts + 1,
              !.last_error = nullIfEmpty(err)]

\* limiter.Wait fails only when the worker's context is cancelled
Cancelled(wk) == wk.err = WaitErr

\* the final UPDATE runs under the worker's context: the pool refuses a
\* statement under a cancelled context, and Run then returns ctx.Err()
Finish(w, fail) ==
  /\ workers[w].pc = "finish"
  /\ sync_jobs' = IF fail \/ Cancelled(workers[w]) THEN sync_jobs
                  ELSE [sync_jobs EXCEPT ![workers[w].job] = FinishedRow(@, workers[w].err)]
  /\ workers' = [workers EXCEPT ![w] = IF Cancelled(workers[w])
                                       THEN [IdleWorker EXCEPT !.pc = "down"]
                                       ELSE IdleWorker]
  /\ UNCHANGED <<github_issues, github_pull_requests, claimLog>>
  /\ WorkerFrame

\* the worker's process stops in the middle of processOne: nothing more of it
\* runs; the database rolls back its open transaction, which releases the row
\* lock of an uncommitted claim
Crash(w) ==
  /\ workers[w].pc \notin {"idle", "down"}
  /\ workers' = [workers EXCEPT ![w] = [IdleWorker EXCEPT !.pc = "down"]]
  /\ UNCHANGED <<sync_jobs, github_issues, github_pull_requests, claimLog>>
  /\ WorkerFrame

\* the process is started again: syncjobs.New and Run
Restart(w) ==
  /\ workers[w].pc = "down"
  /\ workers' = [workers EXCEPT ![w] = IdleWorker]
  /\ UNCHANGED <<sync_jobs, github_issues, github_pull_requests, claimLog>>
  /\ WorkerFrame

(***************************************************************************)
(* SyncHandler.EnqueueFullSync: POST /projects/:id/sync by user with role. *)
(***************************************************************************)
\* mutant: the owner check is left out
EnqueueFullSyncAnyUser(user, role, projectID, fail) ==
  LET found == {p \in Projects : p.id = projectID}
  IN /\ resp' = IF user = "" THEN 401
                ELSE IF projectID = "" THEN 400
                ELSE IF found = {} THEN 404
                ELSE 202
     /\ sync_jobs' = IF user # "" /\ projectID # "" /\ found # {}
                     THEN InsertSyncJobs(sync_jobs, projectID, now, fail)
                     ELSE sync_jobs
     /\ Len(sync_jobs') <= MaxJobs
     /\ hist' = [NoHist EXCEPT !.op = "sync"]
     /\ UNCHANGED <<cfg, github_events, github_issues, github_pull_requests, busQ, now,
                    workers, claimLog, remotePages>>

EnqueueFullSync(user, role, projectID, fail) ==
  LET found == {p \in Projects : p.id = projectID}
      allowed == \E p \in found : p.owner_user_id = user \/ role = "admin"
  IN /\ resp' = IF user = "" THEN 401
                ELSE IF projectID = "" THEN 400
                ELSE IF found = {} THEN 404
                ELSE IF ~allowed THEN 403
                ELSE 202
     /\ sync_jobs' = IF user # "" /\ projectID # "" /\ found # {} /\ allowed
                     THEN InsertSyncJobs(sync_jobs, projectID, now, fail)
                     ELSE sync_jobs
     /\ Len(sync_jobs') <= MaxJobs
     /\ hist' = [NoHist EXCEPT !.op = "sync"]
     /\ UNCHANGED <<cfg, github_events, github_issues, github_pull_requests, busQ, now,
                    workers, claimLog, remotePages>>

(***************************************************************************)
(* Inputs: signature headers and requests.                                 *)
(***************************************************************************)
\* the header GitHub sends for a body signed with a secret
SignedHeader(secret, body) == SigPrefix \o hexEncodeLower(HMAC(secret, body))

SigHeaders(body) ==
  {SignedHeader(Secret1, body),
   SigPrefix \o ToUpper(hexEncodeLower(HMAC(Secret1, body))),
   <<" ">> \o SignedHeader(Secret1, body) \o <<" ">>,
   ToUpper(SignedHeader(Secret1, body)),
   <<>>,
   hexEncodeLower(HMAC(Secret1, body)),
   <<"s", "h", "a", "1", "=">> \o hexEncodeLower(HMAC(Secret1, body)),
   SigPrefix,
   SubSeq(SignedHeader(Secret1, body), 1, Len(SignedHeader(Secret1, body)) - 1),
   SignedHeader(Secret1, body) \o <<"0">>,
   SignedHeader(Secret2, body),
   SignedHeader(Secret1, B_closed)}

Signed(delivery, event, body) ==
  Request(delivery, event, body, SignedHeader(Secret1, body))

Configs == [secret : {NoSecret, Secret1}, bus : BOOLEAN, ing : BOOLEAN]

\* at most one statement of a call fails
SingleFaults == {f \in Faults : Cardinality({k \in DOMAIN f : f[k]}) <= 1}

InitRemote(configs, pages) ==
  /\ cfg \in configs
  /\ remotePages \in pages
  /\ github_events = {}
  /\ github_issues = {}
  /\ github_pull_requests = {}
  /\ sync_jobs = <<>>
  /\ busQ = <<>>
  /\ now = 0
  /\ resp = 0
  /\ hist = NoHist
  /\ workers = [w \in Workers |-> IdleWorker]
  /\ claimLog = {}

\* the external API lists one page
InitWith(configs) == InitRemote(configs, {1})

(***************************************************************************)
(* SpecIngest: deliveries and redeliveries of correctly signed requests,   *)
(* ingested inline by the receiver (no bus configured).                    *)
(***************************************************************************)
IngestRequests ==
  {Signed("d-1", "issues", B_opened),
   Signed("d-2", "pull_request", B_pr),
   Signed("d-1", "ping", B_norepo),
   Signed("d-1", "issues", B_garbage),
   Signed("", "push", B_push)}

InitIngest == InitWith({c \in Configs : c.secret = Secret1 /\ c.ing /\ ~c.bus})

ReceiveIngest == \E req \in IngestRequests, f \in SingleFaults : Receive(req, f, TRUE)

ConsumeAny == \E i \in 1..Len(busQ), f \in SingleFaults : Consume(i, f)

NextIngest == ReceiveIngest \/ Tick

SpecIngest == InitIngest /\ [][NextIngest]_vars

(***************************************************************************)
(* SpecReceive: the receiver under every configuration, with valid and     *)
(* invalid signature headers.                                              *)
(***************************************************************************)
ReceiveRequests ==
  {Request("d-1", "issues", B_opened, h) : h \in SigHeaders(B_opened)}
  \cup {Signed("d-2", "issues", B_garbage)}

InitReceive == InitWith(Configs)

ReceiveFaults == {NoFault, [NoFault EXCEPT !.audit = TRUE]}

ReceiveSigned ==
  \E req \in ReceiveRequests, f \in ReceiveFaults, pubOk \in BOOLEAN : Receive(req, f, pubOk)

NextReceive == ReceiveSigned \/ ConsumeAny \/ Tick

SpecReceive == InitReceive /\ [][NextReceive]_vars

(***************************************************************************)
(* Properties of the webhook path.                                         *)
(***************************************************************************)
EventsOf(T, delivery) == {r \in T : r.delivery_id = delivery}

\* a snapshot table without its last_seen_at column
SansSeen(T) == {[r EXCEPT !.last_seen_at = 0] : r \in T}

\* the previous handler call ingested e, and no call of that run of deliveries
\* met a database failure
JustIngested(e) == hist.ev = Some(e) /\ ~hist.fault

\* C3 as stated: a repeated ingestion of the same event (same JSON payload, same
\* non-empty delivery identifier) leaves exactly one audit row for the
\* identifier and the snapshot tables exactly as the previous ingestion left them.
C3_IdenticalSnapshot ==
  [][\A req \in IngestRequests :
       LET e == ReceivedEvent(req)
       IN (hist'.req = Some(req) /\ Receive(req, NoFault, TRUE) /\ JustIngested(e)
           /\ e.DeliveryID # "" /\ IsJSON(e.Payload))
          => /\ Cardinality(EventsOf(github_events', e.DeliveryID)) = 1
             /\ github_issues' = github_issues
             /\ github_pull_requests' = github_pull_requests]_vars

\* C3 amended: for a JSON payload, a repeated ingestion leaves the audit table
\* unchanged with exactly one row for the identifier, and the snapshot tables
\* unchanged in every column but last_seen_at.
C3_Idempotent ==
  [][\A req \in IngestRequests :
       LET e == ReceivedEvent(req)
       IN (hist'.req = Some(req) /\ Receive(req, NoFault, TRUE) /\ JustIngested(e)
           /\ e.DeliveryID # "" /\ IsJSON(e.Payload))
          => /\ Cardinality(EventsOf(github_events', e.DeliveryID)) = 1
             /\ github_events' = github_events
             /\ SansSeen(github_issues') = SansSeen(github_issues)
             /\ SansSeen(github_pull_requests') = SansSeen(github_pull_requests)
             /\ Cardinality(github_issues') = Cardinality(github_issues)
             /\ Cardinality(github_pull_requests') = Cardinality(github_pull_requests)]_vars

C3_Witness ==
  /\ hist.again /\ ~hist.fault
  /\ hist.ev = Some(ReceivedEvent(Signed("d-1", "issues", B_opened)))
  /\ Cardinality(EventsOf(github_events, "d-1")) = 1
  /\ \E r \in github_issues : r.github_issue_id = WI_open.id /\ r.last_seen_at = MaxTime

StoreEmpty ==
  /\ github_events = {} /\ github_issues = {} /\ github_pull_requests = {}
  /\ sync_jobs = <<>>

\* C8: from an empty store, ingesting an issues event with a fresh delivery
\* identifier for a mapped repository leaves one audit row with that identifier,
\* one issue row of the project with the payload's number and state, and two
\* pending jobs of the project, one sync_issues and one sync_prs.
C8_FirstDelivery ==
  [][\A req \in IngestRequests :
       LET e == ReceivedEvent(req)
           pid == IngestProjectID(e, FALSE)
       IN (hist'.req = Some(req) /\ Receive(req, NoFault, TRUE) /\ StoreEmpty
           /\ e.Event = "issues"
           /\ e.DeliveryID # "" /\ pid # None /\ e.Payload.issue # Absent)
          => /\ Cardinality(github_events') = 1
             /\ \A r \in github_events' : r.delivery_id = e.DeliveryID
             /\ Cardinality(github_issues') = 1
             /\ \A r \in github_issues' :
                  /\ r.project_id = pid
                  /\ r.number = e.Payload.issue[1].number
                  /\ r.state = e.Payload.issue[1].state
             /\ github_pull_requests' = {}
             /\ Len(sync_jobs') = 2
             /\ \A i \in 1..2 : sync_jobs'[i].status = "pending"
                                /\ sync_jobs'[i].project_id = pid
             /\ {sync_jobs'[i].job_type : i \in 1..2} = {"sync_issues", "sync_prs"}]_vars

C8_Witness ==
  /\ hist.op = "receive" /\ ~hist.again /\ ~hist.fault
  /\ hist.ev = Some(ReceivedEvent(Signed("d-1", "issues", B_opened)))
  /\ Cardinality(github_events) = 1
  /\ Cardinality(github_issues) = 1
  /\ github_pull_requests = {}
  /\ Len(sync_jobs) = 2

HasAuditRow(delivery) == \E r \in github_events : r.delivery_id = delivery

\* C9 as stated: ingesting an event whose delivery identifier already has an
\* audit row keeps that identifier at one audit row and adds no sync_jobs row.
C9_RedeliveryNoJobs ==
  [][\A req \in IngestRequests :
       (hist'.req = Some(req) /\ Receive(req, NoFault, TRUE) /\ HasAuditRow(req.delivery))
       => /\ Cardinality(EventsOf(github_events', req.delivery)) = 1
          /\ sync_jobs' = sync_jobs]_vars

\* C9 amended: such a redelivery leaves the audit table unchanged (one row for
\* the identifier) and still appends the two pending jobs when the repository
\* maps to a project and the event type is issues, pull_request or push; it
\* appends no job otherwise.
C9_RedeliveryEnqueues ==
  [][\A req \in IngestRequests :
       LET e == ReceivedEvent(req)
           pid == IngestProjectID(e, FALSE)
       IN (hist'.req = Some(req) /\ Receive(req, NoFault, TRUE)
           /\ HasAuditRow(req.delivery))
          => /\ Cardinality(EventsOf(github_events', req.delivery)) = 1
             /\ github_events' = github_events
             /\ sync_jobs' =
                  IF pid # None /\ e.Event \in {"issues", "pull_request", "push"}
                  THEN sync_jobs \o <<JobRow(pid, "sync_issues", now),
                                      JobRow(pid, "sync_prs", now)>>
                  ELSE sync_jobs]_vars

C9_Witness ==
  /\ hist.again /\ ~hist.fault
  /\ hist.ev = Some(ReceivedEvent(Signed("d-1", "issues", B_opened)))
  /\ Cardinality(EventsOf(github_events, "d-1")) = 1
  /\ Len(sync_jobs) = 4

\* number of repeated ingestions looked at
MaxRepeat == 3

RECURSIVE IngestTimes(_, _, _)
IngestTimes(db, e, n) ==
  IF n = 0 THEN db ELSE IngestTimes(Ingest(db, e, now, NoFault), e, n - 1)

\* C10: ingesting the same job-triggering event of a mapped repository N times
\* appends N pairs of pending jobs, 2N rows, whether or not its delivery
\* identifier is already in the audit table.
C10_NPairs ==
  \A req \in IngestRequests, n \in 1..MaxRepeat :
    LET e == ReceivedEvent(req)
        pid == IngestProjectID(e, FALSE)
        jobs == IngestTimes(DB, e, n).jobs
    IN (pid # None /\ e.Event \in {"issues", "pull_request", "push"})
       => /\ Len(jobs) = Len(sync_jobs) + 2 * n
          /\ SubSeq(jobs, 1, Len(sync_jobs)) = sync_jobs
          /\ \A i \in (Len(sync_jobs) + 1)..Len(jobs) :
               /\ jobs[i].status = "pending"
               /\ jobs[i].project_id = pid
               /\ jobs[i].job_type = IF (i - Len(sync_jobs)) % 2 = 1 THEN "sync_issues"
                                     ELSE "sync_prs"

C10_Witness ==
  /\ hist.again /\ ~hist.fault
  /\ hist.ev = Some(ReceivedEvent(Signed("d-2", "pull_request", B_pr)))
  /\ Cardinality(EventsOf(github_events, "d-2")) = 1
  /\ Len(sync_jobs) = 4
  /\ \A i \in 1..4 : sync_jobs[i].status = "pending"

(***************************************************************************)
(* Properties of the receiver.                                             *)
(***************************************************************************)
\* value of a hexadecimal digit of either case, 16 for any other character
HexVal(c) ==
  CASE c = "0" -> 0 [] c = "1" -> 1 [] c = "2" -> 2 [] c = "3" -> 3 [] c = "4" -> 4
    [] c = "5" -> 5 [] c = "6" -> 6 [] c = "7" -> 7 [] c = "8" -> 8 [] c = "9" -> 9
    [] c \in {"a", "A"} -> 10 [] c \in {"b", "B"} -> 11 [] c \in {"c", "C"} -> 12
    [] c \in {"d", "D"} -> 13 [] c \in {"e", "E"} -> 14 [] c \in {"f", "F"} -> 15
    [] OTHER -> 16

\* the header, trimmed, is sha256= followed by hexadecimal digits of either case
\* that spell the HMAC of the body under the secret
DenotesHMAC(secret, body, header) ==
  LET h == TrimSpace(header)
      hex == SubSeq(h, Len(SigPrefix) + 1, Len(h))
      mac == HMAC(secret, body)
  IN /\ Len(h) = Len(SigPrefix) + 2 * Len(mac)
     /\ SubSeq(h, 1, Len(SigPrefix)) = SigPrefix
     /\ \A i \in 1..Len(mac) :
          /\ HexVal(hex[2 * i - 1]) < 16 /\ HexVal(hex[2 * i]) < 16
          /\ HexVal(hex[2 * i - 1]) * 16 + HexVal(hex[2 * i]) = mac[i]

NoEffect == UnchangedDB /\ busQ' = busQ

C5_StatusCodes ==
  [][\A req \in ReceiveRequests, f \in ReceiveFaults, pubOk \in BOOLEAN :
       (hist'.req = Some(req) /\ Receive(req, f, pubOk))
       => /\ resp' = IF cfg.secret = NoSecret THEN 503
                     ELSE IF ~DenotesHMAC(cfg.secret, req.body, req.sig) THEN 401
                     ELSE 200
          /\ cfg.secret = NoSecret => NoEffect]_vars

C5_Witness ==
  /\ resp = 200 /\ hist.op = "receive" /\ hist.pub = "failed"
  /\ cfg.bus /\ cfg.secret = Secret1

(***************************************************************************)
(* Spec: the pipeline.  Webhooks ingested inline and the sync trigger      *)
(* enqueue jobs; the workers claim and run them.                           *)
(***************************************************************************)
\* sync jobs the pipeline may hold
MaxPipelineJobs == 2

\* a review delivery refreshes the pull request and enqueues nothing
PipelineRequests == {Signed("d-1", "pull_request_review", B_pr)}

InitPipeline == InitWith({c \in Configs : c.secret = Secret1 /\ c.ing /\ ~c.bus})

ReceivePipeline ==
  /\ \E req \in PipelineRequests : Receive(req, NoFault, TRUE)
  /\ Len(sync_jobs') <= MaxPipelineJobs

SyncTrigger ==
  /\ EnqueueFullSync("u1", "user", "p1", FALSE)
  /\ Len(sync_jobs') <= MaxPipelineJobs

WorkerStep ==
  \E w \in Workers :
    \/ BeginTx(w)
    \/ SelectSnapshot(w)
    \/ SelectLock(w)
    \/ CommitClaim(w)
    \/ RollbackClaim(w)
    \/ \E ok \in BOOLEAN : ResolveCredential(w, ok)
    \/ \E outcome \in {"ok", "github list failed"} : FetchPage(w, outcome)
    \/ StartItem(w, TRUE)
    \/ ApplyUpsert(w, FALSE)
    \/ \E fail \in BOOLEAN : Finish(w, fail)

Next == ReceivePipeline \/ SyncTrigger \/ WorkerStep \/ Tick

Spec == InitPipeline /\ [][Next]_vars

(***************************************************************************)
(* Properties of the pipeline (Spec).                                      *)
(***************************************************************************)
\* the worker is between the commit of its claim and the final UPDATE
Executing(w) == workers[w].pc \in {"run", "page", "item", "stmt", "finish"}

\* C1 claim exclusivity: with several workers running processOne against the
\* same queue, a job that has left 'pending' was flipped to 'running' by
\* exactly one committed claim, a pending job by none, and no two workers
\* execute the same job, be it at the same time or one after the other.
C1_ClaimExclusivity ==
  /\ \A j \in 1..Len(sync_jobs) :
       Cardinality(ClaimsOf(j)) = IF sync_jobs[j].status = "pending" THEN 0 ELSE 1
  /\ \A w1 \in Workers : \A w2 \in Workers \ {w1} :
       (Executing(w1) /\ Executing(w2)) => workers[w1].job # workers[w2].job

\* two workers, whose claim queries both saw both pending jobs, execute one
\* job each
C1_Witness ==
  /\ Executing(1) /\ Executing(2)
  /\ Cardinality(claimLog) = 2
  /\ \E j \in 1..Len(sync_jobs) : sync_jobs[j].locked_by = WorkerID(2)

StatusEdges ==
  {<<"pending", "running">>, <<"running", "completed">>, <<"running", "failed">>}

\* C2 job status state machine: in every step of ingestion, sync trigger and
\* worker, a job row that appears is pending, no job row disappears, and a
\* status that changes moves along pending -> running, running -> completed
\* or running -> failed; so completed and failed are final.
C2_StatusMachine ==
  [][/\ Len(sync_jobs') >= Len(sync_jobs)
     /\ \A j \in 1..Len(sync_jobs) :
          \/ sync_jobs'[j].status = sync_jobs[j].status
          \/ <<sync_jobs[j].status, sync_jobs'[j].status>> \in StatusEdges
     /\ \A j \in (Len(sync_jobs) + 1)..Len(sync_jobs') :
          sync_jobs'[j].status = "pending"]_vars

\* one job has completed and another has failed
C2_Witness ==
  \E j, k \in 1..Len(sync_jobs) :
    /\ sync_jobs[j].status = "completed" /\ sync_jobs[j].attempts = 1
    /\ sync_jobs[k].status = "failed" /\ sync_jobs[k].last_error # None

IssuesOf(T, pid, id) == {r \in T : r.project_id = pid /\ r.github_issue_id = id}

PRsOf(T, pid, id) == {r \in T : r.project_id = pid /\ r.github_pr_id = id}

\* C6 upsert last-write-wins: after a step in which the ingestor or a worker
\* applies an upsert for an entity, the stored row of that entity is the row
\* of that upsert alone (what it stores in an empty table), not a mixture with
\* fields of earlier upserts.
C6_LastWriteWins ==
  [][/\ \A w \in Workers :
          (workers[w].pc = "stmt" /\ workers'[w].pc # "stmt") =>
            LET wk == workers[w]
                it == wk.items[wk.idx]
                pid == sync_jobs[wk.job].project_id
            IN IF sync_jobs[wk.job].job_type = "sync_issues"
               THEN IssuesOf(github_issues', pid, it.id) \subseteq
                      SyncUpsertIssue({}, pid, it, wk.comments, wk.ts, FALSE)
               ELSE PRsOf(github_pull_requests', pid, it.id) \subseteq
                      SyncUpsertPR({}, pid, it, wk.ts, FALSE)
     /\ \A req \in PipelineRequests :
          (hist'.req = Some(req) /\ Receive(req, NoFault, TRUE)) =>
            LET e == ReceivedEvent(req)
                pid == IngestProjectID(e, FALSE)
                pr == UnmarshalIngest(e.Payload).PullRequest[1]
            IN PRsOf(github_pull_requests', pid, pr.id) \subseteq
                 IngestUpsertPR({}, pid, pr, now, FALSE)]_vars

\* C7 last_seen_at monotonicity: in every step, whichever writer takes it, the
\* last_seen_at of a snapshot row that stays in its table does not decrease.
C7_LastSeenMonotone ==
  [][/\ \A r \in github_issues :
          \A q \in IssuesOf(github_issues', r.project_id, r.github_issue_id) :
            q.last_seen_at >= r.last_seen_at
     /\ \A r \in github_pull_requests :
          \A q \in PRsOf(github_pull_requests', r.project_id, r.github_pr_id) :
            q.last_seen_at >= r.last_seen_at]_vars

\* the two job rows the ingestor and the sync trigger append
JobPair(pid, t) == <<JobRow(pid, "sync_issues", t), JobRow(pid, "sync_prs", t)>>

\* C11 reconciliation safety net: every ingestion of an event whose repository
\* maps to a registered project appends the two pending follow-up jobs,
\* whatever the event type, a pull_request_review included.
C11_SafetyNetAnyEvent ==
  [][\A req \in PipelineRequests :
       LET e == ReceivedEvent(req)
           pid == IngestProjectID(e, FALSE)
       IN (hist'.req = Some(req) /\ Receive(req, NoFault, TRUE) /\ pid # None)
          => sync_jobs' = sync_jobs \o JobPair(pid, now)]_vars

(***************************************************************************)
(* SpecSync: one worker runs the jobs of a sync trigger against an API     *)
(* that lists 0..MaxRemotePages non-empty pages; every outbound call and   *)
(* every statement of the run may fail.                                    *)
(***************************************************************************)
\* most non-empty pages the external API lists
MaxRemotePages == 3

InitSync ==
  InitRemote({c \in Configs : c.secret = Secret1 /\ c.ing /\ ~c.bus}, 0..MaxRemotePages)

SyncWorker ==
  \E w \in {1} :
    \/ BeginTx(w)
    \/ SelectSnapshot(w)
    \/ SelectLock(w)
    \/ CommitClaim(w)
    \/ RollbackClaim(w)
    \/ \E ok \in BOOLEAN : ResolveCredential(w, ok)
    \/ \E outcome \in {"ok", "github list failed", WaitErr} : FetchPage(w, outcome)
    \/ \E commentsOk \in BOOLEAN : StartItem(w, commentsOk)
    \/ \E fail \in BOOLEAN : ApplyUpsert(w, fail)
    \/ \E fail \in BOOLEAN : Finish(w, fail)

NextSync == SyncTrigger \/ SyncWorker

SpecSync == InitSync /\ [][NextSync]_vars

PagesUpTo(n) == [i \in 1..n |-> i]

\* C12 pagination termination: against an API that lists n non-empty pages and
\* then an empty one (n < 50), a job requests the pages 1, 2, ... in increasing
\* order, never more than n + 1 of them; a run that returns without error has
\* requested exactly the pages 1..n+1, and its job ends 'completed'.
C12_Pagination ==
  [][\A w \in Workers :
       /\ workers'[w].calls = PagesUpTo(Len(workers'[w].calls))
       /\ Len(workers'[w].calls) <= remotePages + 1
       /\ (workers[w].pc = "finish" /\ workers[w].err = "" /\ Finish(w, FALSE))
          => /\ workers[w].calls = PagesUpTo(remotePages + 1)
             /\ sync_jobs'[workers[w].job].status = "completed"]_vars

\* a run against three non-empty pages has returned nil after four list calls
C12_Witness ==
  /\ remotePages = 3
  /\ workers[1].pc = "finish" /\ workers[1].err = ""
  /\ workers[1].calls = <<1, 2, 3, 4>>
  /\ sync_jobs[workers[1].job].job_type = "sync_issues"

\* the errors of a list-page fetch: of the call, or of the wait before it
ListErrors == {"github list failed", WaitErr}

\* handling items[idx] takes a comment-list call
MakesCommentCall(w) ==
  LET wk == workers[w]
  IN /\ wk.pc = "item"
     /\ sync_jobs[wk.job].job_type = "sync_issues"
     /\ ~wk.items[wk.idx].pull_request
     /\ wk.items[wk.idx].comments > 0

\* runJob returns err: the only step left to the worker is the final UPDATE
Aborted(w, err) == workers'[w].pc = "finish" /\ workers'[w].err = err

\* the final UPDATE records the failure of a call
RecordsFailure(w) ==
  (workers[w].pc = "finish" /\ workers[w].err \notin {"", WaitErr} /\ Finish(w, FALSE))
  => /\ sync_jobs'[workers[w].job].status = "failed"
     /\ sync_jobs'[workers[w].job].last_error = workers[w].err

\* after a failed wait the final UPDATE changes nothing
LeavesRowAfterCancel(w) ==
  (workers[w].pc = "finish" /\ workers[w].err = WaitErr /\ Finish(w, FALSE))
  => sync_jobs' = sync_jobs

C14_NoRetry ==
  [][/\ workers' # workers
        => /\ Len(sync_jobs') = Len(sync_jobs)
           /\ \A j \in 1..Len(sync_jobs) :
                sync_jobs'[j].status = "pending" => sync_jobs'[j] = sync_jobs[j]
     /\ \A j \in 1..Len(sync_jobs') :
          /\ sync_jobs'[j].attempts <= 1
          /\ Cardinality({c \in claimLog' : c[1] = j}) <= 1
          /\ sync_jobs'[j].attempts = 1
             => sync_jobs'[j].status \in {"completed", "failed"}]_vars

\* a job has failed, and a later poll of a worker finds nothing to claim
C14_Witness ==
  /\ \E j \in 1..Len(sync_jobs) :
       sync_jobs[j].status = "failed" /\ sync_jobs[j].attempts = 1
  /\ \A j \in 1..Len(sync_jobs) : sync_jobs[j].status # "pending"
  /\ \E w \in Workers : workers[w].pc = "scan" /\ workers[w].cand = {}

(***************************************************************************)
(* SpecCrash: the workers run the jobs of a sync trigger; a worker's       *)
(* process may stop at any point of processOne and be started again.       *)
(***************************************************************************)
CrashWorker ==
  \E w \in Workers :
    \/ BeginTx(w)
    \/ SelectSnapshot(w)
    \/ SelectLock(w)
    \/ CommitClaim(w)
    \/ ResolveCredential(w, TRUE)
    \/ FetchPage(w, "ok")
    \/ StartItem(w, TRUE)
    \/ ApplyUpsert(w, FALSE)
    \/ Finish(w, FALSE)
    \/ Crash(w)
    \/ Restart(w)

NextCrash == SyncTrigger \/ CrashWorker

SpecCrash == InitPipeline /\ [][NextCrash]_vars

\* no running worker is executing job j
Orphaned(j) ==
  /\ sync_jobs[j].status = "running"
  /\ ~\E w \in Workers : Executing(w) /\ workers[w].job = j

\* C15 stale running job: a job that is 'running' while the worker that
\* claimed it has stopped keeps its whole row (status 'running', lock holder,
\* lock time, attempts) in every step of the other workers and of the
\* restarted worker, and no worker comes to execute it; so it stays 'running'
\* in every later state.
C15_StaleRunningStays ==
  [][\A j \in 1..Len(sync_jobs) :
       Orphaned(j)
       => /\ sync_jobs'[j] = sync_jobs[j]
          /\ ~\E w \in Workers : workers'[w].pc \in {"locked", "run"} /\ workers'[w].job = j]_vars

\* worker 1 stopped while executing its job; worker 2 has finished the other
\* job and polls again, finding nothing to claim
C15_Witness ==
  /\ workers[1].pc = "down"
  /\ \E j \in 1..Len(sync_jobs) :
       /\ Orphaned(j) /\ sync_jobs[j].locked_by = WorkerID(1)
       /\ \A k \in (1..Len(sync_jobs)) \ {j} :
            sync_jobs[k].status = "completed" /\ sync_jobs[k].locked_by = WorkerID(2)
  /\ workers[2].pc = "scan" /\ workers[2].cand = {}

\* C16 best-effort publish: with a bus configured, a correctly signed request
\* is answered 200 and touches no table (no inline ingestion, whether or not
\* an ingestor is configured too); it puts at most one message, the encoded
\* envelope, on the subject, and none when the publish fails or the envelope
\* cannot be encoded, so that nothing of that delivery is left to consume.
C16_BestEffortPublish ==
  [][\A req \in ReceiveRequests, f \in ReceiveFaults, pubOk \in BOOLEAN :
       (hist'.req = Some(req) /\ Receive(req, f, pubOk) /\ cfg.bus
        /\ cfg.secret # NoSecret /\ DenotesHMAC(cfg.secret, req.body, req.sig))
       => /\ resp' = 200
          /\ UnchangedDB
          /\ hist'.ev = Absent
          /\ \/ busQ' = busQ
             \/ busQ' = Append(busQ, MarshalEvent(ReceivedEvent(req)))
          /\ (~pubOk \/ ~IsJSON(req.body)) => busQ' = busQ
          /\ (hist'.pub = "ok") = (busQ' # busQ)]_vars

\* a publish has failed: answered 200, nothing on the bus, nothing stored
C16_Witness ==
  /\ cfg.bus /\ cfg.ing /\ cfg.secret # NoSecret
  /\ hist.op = "receive" /\ hist.pub = "failed" /\ resp = 200
  /\ busQ = <<>> /\ StoreEmpty

\* the faults f, without those of the statements other than k (the lookup,
\* which decides what the statements are given, is kept)
OnlyFault(f, k) == [NoFault EXCEPT !.lookup = f.lookup, ![k] = f[k]]

\* C17 ingestor failure isolation: under every combination of failures of the
\* audit insert, the snapshot upsert and the job insert, each of the three
\* effects is what it is when only its own statement may fail: a failed
\* statement does not keep the others from being executed and applied.
C17_FailureIsolation ==
  \A req \in IngestRequests, f \in Faults :
    LET e == ReceivedEvent(req)
        r == Ingest(DB, e, now, f)
    IN /\ r.events = Ingest(DB, e, now, OnlyFault(f, "audit")).events
       /\ r.issues = Ingest(DB, e, now, OnlyFault(f, "snap")).issues
       /\ r.prs = Ingest(DB, e, now, OnlyFault(f, "snap")).prs
       /\ r.jobs = Ingest(DB, e, now, OnlyFault(f, "jobs")).jobs
       /\ f.audit => r.events = github_events
       /\ f.snap => (r.issues = github_issues /\ r.prs = github_pull_requests)
       /\ f.jobs => r.jobs = sync_jobs

\* the audit insert of a first delivery failed; its snapshot row and its two
\* jobs are stored all the same, and the request was answered 200
C17_Witness ==
  /\ hist.op = "receive" /\ hist.fault /\ resp = 200
  /\ hist.ev = Some(ReceivedEvent(Signed("d-1", "issues", B_opened)))
  /\ github_events = {}
  /\ Cardinality(github_issues) = 1
  /\ Len(sync_jobs) = 2

\* C18 commutative concurrent writers: two upserts of the same entity, by two
\* ingestions or by an ingestion and a sync worker, leave the same snapshot
\* row in whichever order they are applied to the stored tables.
C18_UpsertsCommute ==
  /\ \A a, b \in {WI_open, WI_closed} :
       IngestUpsertIssue(IngestUpsertIssue(github_issues, "p1", a, now, FALSE),
                         "p1", b, now, FALSE)
       = IngestUpsertIssue(IngestUpsertIssue(github_issues, "p1", b, now, FALSE),
                           "p1", a, now, FALSE)
  /\ IngestUpsertPR(SyncUpsertPR(github_pull_requests, "p1", AP_201, now, FALSE),
                    "p1", WP_open, now, FALSE)
     = SyncUpsertPR(IngestUpsertPR(github_pull_requests, "p1", WP_open, now, FALSE),
                    "p1", AP_201, now, FALSE)

(***************************************************************************)
(* SpecTrigger: sync requests by the owner, by another user, by an admin    *)
(* and without a valid user, for the project, for an unknown project and   *)
(* with an invalid project id, between webhook deliveries.                 *)
(***************************************************************************)
TriggerUsers == {"u1", "u2", ""}

TriggerRoles == {"user", "admin"}

TriggerProjects == {"p1", "p9", ""}

TriggerAny ==
  \E user \in TriggerUsers, role \in TriggerRoles, projectID \in TriggerProjects,
     fail \in BOOLEAN :
    EnqueueFullSync(user, role, projectID, fail)

NextTrigger == TriggerAny \/ ReceivePipeline \/ Tick

SpecTrigger == InitPipeline /\ [][NextTrigger]_vars

\* the request is by a valid user for an existing project of which the user is
\* the owner, or by an admin
MaySync(user, role, projectID) ==
  /\ user # "" /\ projectID # ""
  /\ \E p \in Projects : p.id = projectID /\ (p.owner_user_id = user \/ role = "admin")

\* C19 sync trigger: a sync request for an existing project by its owner or an
\* admin appends exactly two pending jobs of the project, one sync_issues and
\* one sync_prs, both with run_at = now, and is answered 202; any other
\* request (another user, unknown project, invalid project or user id)
\* appends nothing and is not answered 202.
C19_SyncTrigger ==
  [][\A user \in TriggerUsers, role \in TriggerRoles, projectID \in TriggerProjects :
       (hist'.op = "sync" /\ EnqueueFullSync(user, role, projectID, FALSE))
       => IF MaySync(user, role, projectID)
          THEN resp' = 202 /\ sync_jobs' = sync_jobs \o JobPair(projectID, now)
          ELSE resp' # 202 /\ sync_jobs' = sync_jobs]_vars

\* a request has been refused with 403 after an accepted one
C19_Witness ==
  /\ hist.op = "sync" /\ resp = 403
  /\ Len(sync_jobs) = 2
  /\ \A j \in 1..2 : sync_jobs[j].status = "pending" /\ sync_jobs[j].run_at = 1
  /\ {sync_jobs[j].job_type : j \in 1..2} = {"sync_issues", "sync_prs"}

\* C20 write-once audit rows: every audit row of github_events is still in the
\* table, with the same project, repository name, event type, action, payload
\* and received time, after every step, and it remains the only row of its
\* delivery identifier; this includes the ingestion of a request that carries
\* the same delivery identifier with another payload or event type.
C20_WriteOnce ==
  [][/\ \A r \in github_events : r \in github_events'
     /\ \A r \in github_events : EventsOf(github_events', r.delivery_id) = {r}]_vars

\* "d-1" was stored as an issues event at time 0; a ping with the same delivery
\* identifier and another payload has just been ingested at time 1 without a
\* database failure
C20_Witness ==
  /\ hist.ev = Some(ReceivedEvent(Signed("d-1", "ping", B_norepo))) /\ ~hist.fault
  /\ now = 1
  /\ \E r \in github_events :
       /\ r.delivery_id = "d-1" /\ r.event = "issues" /\ r.received_at = 0
       /\ r.payload = ToJsonb(B_opened)

(***************************************************************************)
(* SpecSnap: webhook deliveries for an issue (opened, closed), for another *)
(* issue carrying the same number, and for a pull request are ingested     *)
(* while the workers run the sync jobs those deliveries enqueue.           *)
(***************************************************************************)
SnapRequests ==
  {Signed("d-1", "issues", B_opened),
   Signed("d-2", "issues", B_closed),
   Signed("d-3", "issues", B_clash),
   Signed("d-4", "pull_request", B_pr)}

ReceiveSnap == \E req \in SnapRequests : Receive(req, NoFault, TRUE)

SnapWorker ==
  \E w \in Workers :
    \/ BeginTx(w)
    \/ SelectSnapshot(w)
    \/ SelectLock(w)
    \/ CommitClaim(w)
    \/ ResolveCredential(w, TRUE)
    \/ FetchPage(w, "ok")
    \/ StartItem(w, TRUE)
    \/ ApplyUpsert(w, FALSE)
    \/ Finish(w, FALSE)

NextSnap == ReceiveSnap \/ SnapWorker

SpecSnap == InitPipeline /\ [][NextSnap]_vars

\* at most one issue row per (project, issue id) and per (project, number)
IssueKeysUnique(T) ==
  \A r, q \in T :
    (r.project_id = q.project_id
     /\ (r.github_issue_id = q.github_issue_id \/ r.number = q.number)) => r = q

\* at most one pull request row per (project, pr id) and per (project, number)
PRKeysUnique(T) ==
  \A r, q \in T :
    (r.project_id = q.project_id
     /\ (r.github_pr_id = q.github_pr_id \/ r.number = q.number)) => r = q

\* C21 snapshot key uniqueness: after every step of the ingestor and of the
\* workers, in any interleaving, the issue table and the pull request table
\* hold at most one row per (project, external entity id) and at most one row
\* per (project, entity number), and every entity that had a row before the
\* step still has one.
C21_SnapshotKeys ==
  [][/\ IssueKeysUnique(github_issues') /\ PRKeysUnique(github_pull_requests')
     /\ \A r \in github_issues :
          IssuesOf(github_issues', r.project_id, r.github_issue_id) # {}
     /\ \A r \in github_pull_requests :
          PRsOf(github_pull_requests', r.project_id, r.github_pr_id) # {}]_vars

\* the webhook of issue 102 took number 7 first; a sync_issues job that listed
\* issue 101 with number 7 has completed and stored no second row of number 7
C21_Witness ==
  /\ \E r \in github_issues : r.github_issue_id = WI_clash.id /\ r.number = AI_101.number
  /\ ~\E r \in github_issues : r.github_issue_id = AI_101.id
  /\ \E j \in 1..Len(sync_jobs) :
       sync_jobs[j].job_type = "sync_issues" /\ sync_jobs[j].status = "completed"
  /\ \E r \in github_pull_requests : r.github_pr_id = AP_201.id /\ r.merged

\* the row carries the state, title, body, author and number of the listed item
Reflects(r, it) ==
  /\ r.state = it.state /\ r.title = it.title /\ r.body = it.body
  /\ r.author_login = it.login /\ r.number = it.number

\* the issues the external API lists for the project (its page 1 here)
ListedIssues == {RemoteIssues(1)[i] : i \in {k \in 1..Len(RemoteIssues(1)) :
                                           ~RemoteIssues(1)[k].pull_request}}

\* the issue payloads the webhooks of SnapRequests carry
WebhookIssues == {WI_open, WI_closed, WI_clash}

\* worker w makes the final UPDATE of a sync_issues job that returned nil
CompletesIssueSync(w) ==
  /\ workers[w].pc = "finish" /\ workers[w].err = ""
  /\ sync_jobs[workers[w].job].job_type = "sync_issues"
  /\ Finish(w, FALSE)

\* C22 as stated: when a sync_issues job of the project completes, the row of
\* every listed issue that webhook upserts have written (it carries their
\* timestamps) holds the state, title, body, author and number of the
\* external source.
C22_CorrectAtCompletion ==
  [][\A w \in Workers :
       CompletesIssueSync(w)
       => \A it \in ListedIssues :
            \A r \in IssuesOf(github_issues', sync_jobs[workers[w].job].project_id, it.id) :
              r.created_at_github # None => Reflects(r, it)]_vars

\* C22 amended: the job's upsert of a listed issue that has a row gives the
\* row the state, title, body, author and number of the external source; no
\* step of a worker takes them away again; so when the job completes the row
\* holds the external source's values unless a webhook upsert for that issue
\* was applied after the job's upsert, in which case it holds that webhook's
\* values.
C22_CorrectUnlessWebhook ==
  [][\A w \in Workers :
       LET wk == workers[w]
           pid == sync_jobs[wk.job].project_id
       IN /\ (wk.pc = "stmt" /\ sync_jobs[wk.job].job_type = "sync_issues"
              /\ ApplyUpsert(w, FALSE)
              /\ IssuesOf(github_issues, pid, wk.items[wk.idx].id) # {})
             => \A r \in IssuesOf(github_issues', pid, wk.items[wk.idx].id) :
                  Reflects(r, wk.items[wk.idx])
          /\ workers' # workers
             => \A it \in ListedIssues : \A p \in {q.id : q \in Projects} :
                  (\A r \in IssuesOf(github_issues, p, it.id) : Reflects(r, it))
                  => (\A r \in IssuesOf(github_issues', p, it.id) : Reflects(r, it))
          /\ CompletesIssueSync(w)
             => \A it \in ListedIssues : \A r \in IssuesOf(github_issues', pid, it.id) :
                  \/ Reflects(r, it)
                  \/ \E wi \in WebhookIssues : wi.id = it.id /\ Reflects(r, wi)]_vars

\* the closed and then the opened webhook of issue 101 were ingested, in that
\* order; a sync_issues job has completed and the row, still with the
\* timestamps of the opened webhook, holds the external source's values
C22_Witness ==
  /\ HasAuditRow("d-1") /\ HasAuditRow("d-2")
  /\ \E r \in github_issues :
       /\ r.github_issue_id = AI_101.id /\ r.updated_at_github = WI_open.updated_at
       /\ Reflects(r, AI_101) /\ ~Reflects(r, WI_open)
  /\ \E j \in 1..Len(sync_jobs) :
       sync_jobs[j].job_type = "sync_issues" /\ sync_jobs[j].status = "completed"
  /\ \A w \in Workers : workers[w].pc = "idle"

(***************************************************************************)
(* SpecClaim: sync requests at different times fill the queue with jobs of *)
(* different run_at; two workers poll it.  A claimed job ends at once      *)
(* (its owner has no linked account), so that the workers poll again.      *)
(***************************************************************************)
TriggerClaim == EnqueueFullSync("u1", "user", "p1", FALSE)

ClaimWorker ==
  \E w \in Workers :
    \/ BeginTx(w)
    \/ SelectSnapshot(w)
    \/ SelectLock(w)
    \/ CommitClaim(w)
    \/ RollbackClaim(w)
    \/ ResolveCredential(w, FALSE)
    \/ Finish(w, FALSE)

NextClaim == TriggerClaim \/ ClaimWorker \/ Tick

SpecClaim == InitPipeline /\ [][NextClaim]_vars

\* the pending jobs that are due for w's claim transaction and that no other
\* worker's open claim transaction has locked
Claimable(w) ==
  {k \in 1..Len(sync_jobs) :
     /\ sync_jobs[k].status = "pending" /\ sync_jobs[k].run_at <= workers[w].txnow
     /\ ~LockedByOther(w, k)}

\* C23 claim selection: a job returned by a worker's claim query is 'pending'
\* with run_at <= now, is not locked by another worker's open claim
\* transaction, and has the smallest run_at of the pending due jobs that are
\* not so locked; the flip to 'running' is made on such a job; the query
\* never waits (it can always return), and when every pending due job is
\* locked by another worker's open claim transaction it returns no job.
C23_ClaimSelection ==
  [][\A w \in Workers :
       /\ workers[w].pc = "scan" => ENABLED SelectLock(w)
       /\ (workers[w].pc = "scan" /\ workers'[w].pc = "locked")
          => LET j == workers'[w].job
             IN /\ j \in Claimable(w)
                /\ sync_jobs[j].run_at <= now
                /\ \A k \in Claimable(w) : sync_jobs[j].run_at <= sync_jobs[k].run_at
       /\ (workers[w].pc = "scan" /\ workers'[w].pc # "scan" /\ Claimable(w) = {})
          => workers'[w].pc = "idle" /\ workers'[w].job = 0
       /\ (workers[w].pc = "locked" /\ workers'[w].pc = "run")
          => /\ sync_jobs[workers[w].job].status = "pending"
             /\ sync_jobs[workers[w].job].run_at <= now
             /\ sync_jobs'[workers[w].job].status = "running"]_vars

\* worker 1 holds the lock of a job of run_at 0 although jobs of run_at 1 are
\* due as well; worker 2, whose query saw the same rows, skipped the locked
\* row and holds the lock of the other job of run_at 0
C23_Witness ==
  /\ workers[1].pc = "locked" /\ workers[2].pc = "locked"
  /\ workers[1].txnow = 1 /\ workers[2].txnow = 1
  /\ workers[1].job # workers[2].job
  /\ sync_jobs[workers[1].job].run_at = 0 /\ sync_jobs[workers[2].job].run_at = 0
  /\ \E k \in 1..Len(sync_jobs) : sync_jobs[k].status = "pending" /\ sync_jobs[k].run_at = 1

\* C24 completion is recorded: whenever runJob has returned for a claimed job,
\* with nil or with an error (the error of a wait under a cancelled context
\* included), the worker's final UPDATE, the database executing what it is
\* sent, sets the job's status to 'completed' or 'failed' respectively, so
\* that the job is not left 'running' by a worker that did not crash.
C24_CompletionRecorded ==
  [][\A w \in Workers :
       (workers[w].pc = "finish" /\ Finish(w, FALSE))
       => /\ sync_jobs'[workers[w].job].status = FinalStatus(workers[w].err)
          /\ sync_jobs'[workers[w].job].status # "running"]_vars

\* the texts of the errors runJob returns in SpecSync
RunErrors == {"github_not_linked", "github list failed", WaitErr}

\* C25 attempt and error bookkeeping: after every step a job that is pending
\* or running has attempts = 0, a completed job has attempts = 1 and
\* last_error null, and a failed job has attempts = 1 and a non-empty
\* last_error; the final UPDATE of a run that returned an error stores the
\* text of that error.
C25_Bookkeeping ==
  [][/\ \A j \in 1..Len(sync_jobs') :
          LET row == sync_jobs'[j]
          IN /\ row.status \in {"pending", "running"} => row.attempts = 0
             /\ row.status = "completed" => row.attempts = 1 /\ row.last_error = None
             /\ row.status = "failed"
                => row.attempts = 1 /\ row.last_error \in RunErrors
     /\ \A w \in Workers :
          (workers[w].pc = "finish" /\ sync_jobs'[workers[w].job].status = "failed")
          => /\ workers[w].err # ""
             /\ sync_jobs'[workers[w].job].last_error = workers[w].err]_vars

\* one job has failed with the text of a list-page error and the other, claimed
\* after it, is running with no attempt counted yet
C25_Witness ==
  /\ Len(sync_jobs) = 2
  /\ \E j, k \in 1..2 :
       /\ sync_jobs[j].status = "failed" /\ sync_jobs[j].attempts = 1
       /\ sync_jobs[j].last_error = "github list failed"
       /\ sync_jobs[k].status = "running" /\ sync_jobs[k].attempts = 0
       /\ sync_jobs[k].last_error = None

\* worker o's claim query, having taken its snapshot, can lock a pending due
\* job other than j
CanClaimOther(o, j) ==
  \E k \in workers[o].cand \ {j} :
    ClaimQual(sync_jobs[k], workers[o].txnow) /\ ~LockedByOther(o, k)

\* C26 work runs outside the claim transaction: while a worker is in runJob
\* (resolving the credential, fetching pages, upserting) or about to make the
\* final UPDATE, its claim is committed (the job's row reads 'running', locked
\* by that worker, for everyone), the worker holds no row lock on sync_jobs,
\* and another worker whose claim query sees a different pending due job does
\* lock one when the query runs.
C26_WorkOutsideTx ==
  \A w \in Workers :
    Executing(w)
    => /\ sync_jobs[workers[w].job].status = "running"
       /\ sync_jobs[workers[w].job].locked_by = WorkerID(w)
       /\ \A j \in 1..Len(sync_jobs) : ~HoldsRowLock(w, j)
       /\ \A o \in Workers \ {w} :
            (workers[o].pc = "scan" /\ CanClaimOther(o, workers[w].job))
            => /\ ENABLED SelectLock(o)
               /\ ~ENABLED (SelectLock(o) /\ workers'[o].pc # "locked")

\* worker 1 is in the item loop of its job, which reads 'running'; worker 2
\* holds the row lock of the other job, still 'pending'
C26_Witness ==
  /\ workers[1].pc = "item" /\ workers[2].pc = "locked"
  /\ workers[1].job # workers[2].job
  /\ sync_jobs[workers[1].job].status = "running"
  /\ sync_jobs[workers[2].job].status = "pending"
  /\ sync_jobs[workers[1].job].locked_at < workers[2].txnow

\* C27 rate limiting of outbound calls, the cancellation case: a list-page
\* fetch is made only after its wait on the limiter has succeeded; when the
\* wait fails because the context is cancelled, no call is made, the run ends
\* with the error of the wait, and the job ends 'failed'.
C27_CancelledWaitFails ==
  [][\A w \in Workers :
       /\ (workers[w].pc = "page" /\ workers'[w].calls # workers[w].calls)
          => /\ workers'[w].calls = Append(workers[w].calls, workers[w].page)
             /\ ~FetchPage(w, WaitErr)
       /\ (workers[w].pc = "page" /\ FetchPage(w, WaitErr))
          => workers'[w].calls = workers[w].calls /\ Aborted(w, WaitErr)
       /\ (workers[w].pc = "finish" /\ workers[w].err = WaitErr /\ Finish(w, FALSE))
          => /\ sync_jobs'[workers[w].job].status = "failed"
             /\ sync_jobs'[workers[w].job].last_error = WaitErr]_vars

(***************************************************************************)
(* SpecCeiling: one worker runs the jobs of a sync request against an API  *)
(* that lists 49, 50 or 51 non-empty pages.                                *)
(***************************************************************************)
InitCeiling ==
  InitRemote({c \in Configs : c.secret = Secret1 /\ c.ing /\ ~c.bus},
             {MaxPages - 1, MaxPages, MaxPages + 1})

CeilingWorker ==
  \E w \in {1} :
    \/ BeginTx(w)
    \/ SelectSnapshot(w)
    \/ SelectLock(w)
    \/ CommitClaim(w)
    \/ ResolveCredential(w, TRUE)
    \/ FetchPage(w, "ok")
    \/ StartItem(w, TRUE)
    \/ ApplyUpsert(w, FALSE)
    \/ Finish(w, FALSE)

NextCeiling == SyncTrigger \/ CeilingWorker

SpecCeiling == InitCeiling /\ [][NextCeiling]_vars

\* every item of page is in the snapshot table of the job's type
PageStored(jobType, pid, page) ==
  \A i \in 1..Len(RemotePage(jobType, page)) :
    LET it == RemotePage(jobType, page)[i]
    IN IF jobType = "sync_issues"
       THEN it.pull_request
            \/ \E r \in IssuesOf(github_issues, pid, it.id) : Reflects(r, it)
       ELSE \E r \in PRsOf(github_pull_requests, pid, it.id) :
              r.number = it.number /\ r.state = it.state /\ r.title = it.title

\* C28 page ceiling: a job never makes more than 50 list-page calls; when 50
\* or more pages are non-empty, a run that returns nil has requested exactly
\* the pages 1..50 (never page 51), every item of those pages is stored, and
\* the job ends 'completed'.
C28_PageCeiling ==
  [][\A w \in Workers :
       /\ Len(workers'[w].calls) <= MaxPages
       /\ \A i \in 1..Len(workers'[w].calls) : workers'[w].calls[i] <= MaxPages
       /\ (workers[w].pc = "finish" /\ workers[w].err = "" /\ Finish(w, FALSE)
           /\ remotePages >= MaxPages)
          => LET job == sync_jobs[workers[w].job]
             IN /\ workers[w].calls = PagesUpTo(MaxPages)
                /\ \A page \in 1..MaxPages : PageStored(job.job_type, job.project_id, page)
                /\ sync_jobs'[workers[w].job].status = "completed"]_vars

\* against 51 non-empty pages a sync_issues job has completed after 50 list
\* calls; the issue of page 50 is stored, the issue of page 51 is not
C28_Witness ==
  /\ remotePages = MaxPages + 1
  /\ \E j \in 1..Len(sync_jobs) :
       sync_jobs[j].job_type = "sync_issues" /\ sync_jobs[j].status = "completed"
  /\ \E r \in github_issues : r.github_issue_id = AI_page(MaxPages).id
  /\ ~\E r \in github_issues : r.github_issue_id = AI_page(MaxPages + 1).id
  /\ workers[1].pc = "idle" /\ workers[1].calls = <<>>

\* the items the issues endpoint lists with the pull_request marker
MarkedItems ==
  {RemoteIssues(1)[i] : i \in {k \in 1..Len(RemoteIssues(1)) : RemoteIssues(1)[k].pull_request}}

\* C29 pull requests are skipped by issue sync: when a sync_issues job comes
\* to a listed item that carries the pull_request marker it goes on to the
\* next item without a comment fetch and without a statement on the issue
\* table, and no row of the issue table has the id of such an item; for every
\* item without the marker the upsert is issued, and it stores the item.
C29_PullRequestsSkipped ==
  [][/\ \A w \in Workers :
          LET wk == workers[w]
              it == wk.items[wk.idx]
              job == sync_jobs[wk.job]
          IN /\ (wk.pc = "item" /\ workers'[w] # wk /\ job.job_type = "sync_issues")
                => IF it.pull_request
                   THEN /\ workers'[w].pc # "stmt"
                        /\ workers'[w].ccalls = wk.ccalls
                        /\ github_issues' = github_issues
                   ELSE workers'[w].pc = "stmt"
             /\ (wk.pc = "stmt" /\ job.job_type = "sync_issues" /\ ApplyUpsert(w, FALSE))
                => /\ ~it.pull_request
                   /\ \E r \in IssuesOf(github_issues', job.project_id, it.id) :
                        Reflects(r, it)
     /\ \A it \in MarkedItems : \A r \in github_issues' : r.github_issue_id # it.id]_vars

\* a sync_issues job has completed against two pages: the issue listed before
\* the marked item and the issue of the page after it are stored, the marked
\* item is not
C29_Witness ==
  /\ remotePages = 2
  /\ \E j \in 1..Len(sync_jobs) :
       sync_jobs[j].job_type = "sync_issues" /\ sync_jobs[j].status = "completed"
  /\ \E r \in github_issues : r.github_issue_id = AI_101.id
  /\ \E r \in github_issues : r.github_issue_id = AI_page(2).id
  /\ ~\E r \in github_issues : r.github_issue_id = AI_201.id

\* the comment list a sync_issues job stores for a listed item
StoredComments(it) == IF it.comments > 0 THEN RemoteComments(it.number) ELSE <<>>

InitRetry == InitRemote({c \in Configs : c.secret = Secret1 /\ c.ing /\ ~c.bus}, {2})

RetryWorker ==
  \E w \in {1} :
    \/ BeginTx(w)
    \/ SelectSnapshot(w)
    \/ SelectLock(w)
    \/ CommitClaim(w)
    \/ ResolveCredential(w, TRUE)
    \/ \E outcome \in {"ok", "github list failed"} : FetchPage(w, outcome)
    \/ StartItem(w, TRUE)
    \/ ApplyUpsert(w, FALSE)
    \/ Finish(w, FALSE)

NextRetry == TriggerClaim \/ RetryWorker \/ Tick

SpecRetry == InitRetry /\ [][NextRetry]_vars

\* the issue table after the statements of one page of a sync_issues run
RECURSIVE StoreIssues(_, _, _, _)
StoreIssues(T, pid, items, i) ==
  IF i > Len(items) THEN T
  ELSE StoreIssues(IF items[i].pull_request THEN T
                   ELSE SyncUpsertIssue(T, pid, items[i], StoredComments(items[i]), 0, FALSE),
                   pid, items, i + 1)

\* the issue table after one sync_issues run all of whose calls succeed
RECURSIVE OneIssueRun(_, _, _)
OneIssueRun(T, pid, page) ==
  IF page > MaxPages \/ RemoteIssues(page) = <<>> THEN T
  ELSE OneIssueRun(StoreIssues(T, pid, RemoteIssues(page), 1), pid, page + 1)

RECURSIVE StorePRs(_, _, _, _)
StorePRs(T, pid, items, i) ==
  IF i > Len(items) THEN T
  ELSE StorePRs(SyncUpsertPR(T, pid, items[i], 0, FALSE), pid, items, i + 1)

\* the pull-request table after one sync_prs run all of whose calls succeed
RECURSIVE OnePRRun(_, _, _)
OnePRRun(T, pid, page) ==
  IF page > MaxPages \/ RemotePRs(page) = <<>> THEN T
  ELSE OnePRRun(StorePRs(T, pid, RemotePRs(page), 1), pid, page + 1)

\* C31 partial failure and harmless retry: when a sync job fails at the list
\* call of page p, its final UPDATE leaves the snapshot tables alone and the
\* items of the pages 1..p-1 are stored; and whenever a sync job completes,
\* be it the first of its kind or a later one, after failed runs or not, the
\* rows of its table are, apart from last_seen_at, those one successful run
\* on an empty table leaves.
C31_PartialFailureRetry ==
  [][\A w \in Workers :
       LET wk == workers[w]
           job == sync_jobs[wk.job]
       IN /\ (wk.pc = "finish" /\ wk.err = "github list failed" /\ Finish(w, FALSE))
             => /\ github_issues' = github_issues
                /\ github_pull_requests' = github_pull_requests
                /\ \A p \in 1..(Len(wk.calls) - 1) :
                     PageStored(job.job_type, job.project_id, p)
          /\ (wk.pc = "finish" /\ wk.err = "" /\ Finish(w, FALSE))
             => IF job.job_type = "sync_issues"
                THEN SansSeen(github_issues') = SansSeen(OneIssueRun({}, job.project_id, 1))
                ELSE SansSeen(github_pull_requests')
                       = SansSeen(OnePRRun({}, job.project_id, 1))]_vars

\* a later sync_issues job has listed both pages after an earlier one failed
\* at a list call, and is about to be marked completed
C31_Witness ==
  \E w \in Workers :
    /\ workers[w].pc = "finish" /\ workers[w].err = ""
    /\ workers[w].job > 2
    /\ sync_jobs[workers[w].job].job_type = "sync_issues"
    /\ \E j \in 1..(workers[w].job - 1) :
         /\ sync_jobs[j].job_type = "sync_issues"
         /\ sync_jobs[j].status = "failed"
         /\ sync_jobs[j].last_error = "github list failed"
    /\ \E r \in github_issues : r.github_issue_id = AI_page(2).id

\* the events the receiver builds from accepted requests of every body, with
\* and without a delivery identifier (the signature header is not part of them)
EquivEvents ==
  {ReceivedEvent(Request(d, e, BodyList[k], <<>>)) :
     d \in {"d-1", ""}, e \in {"issues", "pull_request"}, k \in 1..Len(BodyList)}

\* the tables after the step
DBAfter == [events |-> github_events', issues |-> github_issues',
            prs |-> github_pull_requests', jobs |-> sync_jobs']

EdgeRequests ==
  {Signed("d-2", "issues", B_garbage),
   Signed("d-3", "issues", B_typeerr),
   Signed("", "issues", B_opened),
   Signed("d-4", "issues", B_ghost),
   Signed("d-5", "push", B_norepo)}

InitEdge == InitWith({c \in Configs : c.secret = Secret1})

ReceiveEdge == \E req \in EdgeRequests, pubOk \in BOOLEAN : Receive(req, NoFault, pubOk)

NextEdge == ReceiveEdge \/ ConsumeAny \/ Tick

SpecEdge == InitEdge /\ [][NextEdge]_vars

\* the accepted requests whose body json.Unmarshal rejects
Unparsable == {req \in EdgeRequests : UnmarshalReceiver(req.body).err}

\* the event with empty repository name and action and the body as payload
BareEvent(req) == Event(req.delivery, req.event, "", "", req.body)

\* the handler call of this step answered req and its publish, if any, did
\* not fail
Answers(req) ==
  /\ now' = now /\ hist'.op = "receive" /\ hist'.req = Some(req)
  /\ hist'.pub # "failed"

\* C33 as stated: a correctly signed request whose body does not parse as the
\* envelope is answered 200, and its event, with empty repository name, empty
\* action and the body as payload, is published when a bus is configured and
\* ingested inline otherwise.
C33_ForwardsUnparsable ==
  [][\A req \in Unparsable :
       Answers(req)
       => /\ resp' = 200
          /\ cfg.bus => busQ' = Append(busQ, MarshalEvent(BareEvent(req)))
          /\ (~cfg.bus /\ cfg.ing)
             => DBAfter = Ingest(DB, BareEvent(req), now, NoFault)]_vars

\* C33 amended: such a request is answered 200; without a bus its event, with
\* empty repository name, empty action and the body as payload, is ingested
\* inline; with a bus the event is published, its payload compacted, when the
\* body is JSON of the wrong shape, and nothing is published and no table
\* changes when the body is not JSON.
C33_TolerantParsing ==
  [][\A req \in Unparsable :
       Answers(req)
       => /\ resp' = 200
          /\ cfg.bus
             => /\ UnchangedDB
                /\ busQ' = IF IsJSON(req.body)
                           THEN Append(busQ, MarshalEvent(BareEvent(req)))
                           ELSE busQ
          /\ (~cfg.bus /\ cfg.ing)
             => DBAfter = Ingest(DB, BareEvent(req), now, NoFault)]_vars

\* a body of the wrong shape went through the bus and was ingested, and the
\* last call answered 200 to a body that is not JSON without publishing it
C33_Witness ==
  /\ cfg.bus /\ resp = 200
  /\ hist.op = "receive" /\ hist.pub = "marshal"
  /\ \E r \in github_events : r.delivery_id = "d-3" /\ r.payload = ToJsonb(B_typeerr)

(***************************************************************************)
(* SpecPoll: worker 1 keeps polling and does not crash (Run calls          *)
(* processOne on every tick of its ticker, and processOne returns: every   *)
(* loop of runJob is bounded; here runJob returns at the credential        *)
(* lookup), the others may stop at any point, the trigger keeps enqueueing.*)
(* Statements of the claim transaction do not fail, and an open claim      *)
(* transaction ends, by its commit or by the loss of its connection.       *)
(***************************************************************************)
PollStep(w) ==
  \/ BeginTx(w)
  \/ SelectSnapshot(w)
  \/ SelectLock(w)
  \/ CommitClaim(w)
  \/ ResolveCredential(w, FALSE)
  \/ Finish(w, FALSE)

ClaimTxEnds(w) == workers[w].pc = "locked" /\ (CommitClaim(w) \/ Crash(w))

NextPoll ==
  \/ TriggerClaim
  \/ \E w \in Workers : PollStep(w)
  \/ \E w \in Workers \ {1} : Crash(w)
  \/ Tick

SpecPoll ==
  /\ InitPipeline /\ [][NextPoll]_vars
  /\ WF_vars(PollStep(1))
  /\ \A w \in Workers \ {1} : WF_vars(ClaimTxEnds(w))

\* job j is pending and due
Due(j) ==
  j <= Len(sync_jobs) /\ sync_jobs[j].status = "pending" /\ sync_jobs[j].run_at <= now

CommentsWorker ==
  \E w \in {1} :
    \/ BeginTx(w)
    \/ SelectSnapshot(w)
    \/ SelectLock(w)
    \/ CommitClaim(w)
    \/ ResolveCredential(w, TRUE)
    \/ FetchPage(w, "ok")
    \/ \E commentsOk \in BOOLEAN : StartItem(w, commentsOk)
    \/ CommentWaitFails(w)
    \/ ApplyUpsert(w, FALSE)
    \/ Finish(w, FALSE)
    \/ Restart(w)

NextComments == TriggerClaim \/ CommentsWorker

SpecComments == InitRetry /\ [][NextComments]_vars

\* worker w leaves an issue that has comments without having obtained their
\* list
FetchFails(w) ==
  LET wk == workers[w]
      it == wk.items[wk.idx]
  IN /\ wk.pc = "item" /\ workers'[w] # wk
     /\ sync_jobs[wk.job].job_type = "sync_issues"
     /\ ~it.pull_request /\ it.comments > 0
     /\ ~(workers'[w].pc = "stmt" /\ workers'[w].comments = RemoteComments(it.number))

\* the run goes on to upsert the item with the empty comment list
GoesOnEmpty(w) ==
  /\ workers'[w].pc = "stmt" /\ workers'[w].err = ""
  /\ workers'[w].comments = <<>>
  /\ workers'[w].idx = workers[w].idx /\ workers'[w].page = workers[w].page

\* the upsert of an item whose list was not obtained stores the empty list
\* with the item's count, whatever list the row held
StoresEmptyList(w) ==
  LET wk == workers[w]
      it == wk.items[wk.idx]
      pid == sync_jobs[wk.job].project_id
  IN (wk.pc = "stmt" /\ workers'[w] # wk /\ sync_jobs[wk.job].job_type = "sync_issues"
      /\ it.comments > 0 /\ wk.comments = <<>>)
     => /\ IssuesOf(github_issues', pid, it.id) # {}
        /\ \A r \in IssuesOf(github_issues', pid, it.id) :
             r.comments = <<>> /\ r.comments_count = it.comments
        /\ workers'[w] = AfterItem(wk)

Collides(T, pid, id, number) ==
  /\ IssuesOf(T, pid, id) = {}
  /\ \E r \in T : r.project_id = pid /\ r.number = number

\* C36 entity-number collision is dropped silently: an issue upsert for an
\* entity that has no row yet, whose number another row of the project holds,
\* leaves the issue table as it is.  Met by the ingestor, the call still
\* answers 200 and its other statements take effect (the audit row is there,
\* the two jobs are appended); met by a sync_issues job, the run goes on with
\* the next item or page without an error.
C36_CollisionDropped ==
  [][/\ \A req \in SnapRequests :
          LET pl == UnmarshalIngest(req.body)
          IN (workers' = workers /\ hist'.req = Some(req) /\ req.event = "issues"
              /\ pl.Issue # Absent
              /\ Collides(github_issues, "p1", pl.Issue[1].id, pl.Issue[1].number))
             => /\ github_issues' = github_issues
                /\ resp' = 200
                /\ HasAuditRow(req.delivery)'
                /\ Len(sync_jobs') = Len(sync_jobs) + 2
     /\ \A w \in Workers :
          LET wk == workers[w]
              it == wk.items[wk.idx]
              job == sync_jobs[wk.job]
          IN (wk.pc = "stmt" /\ workers'[w] # wk /\ job.job_type = "sync_issues"
              /\ Collides(github_issues, job.project_id, it.id, it.number))
             => /\ github_issues' = github_issues
                /\ workers'[w] = AfterItem(wk)
                /\ workers'[w].err = ""]_vars

\* a sync_issues job that listed issue 101, number 7, while issue 102 held
\* the number is completed, and issue 101 has no row
C36_Witness ==
  /\ \E j \in 1..Len(sync_jobs) :
       sync_jobs[j].job_type = "sync_issues" /\ sync_jobs[j].status = "completed"
  /\ IssuesOf(github_issues, "p1", AI_101.id) = {}
  /\ \E r \in github_issues : r.github_issue_id = WI_clash.id /\ r.number = AI_101.number
  /\ HasAuditRow("d-1")

\* the step ingested event e, inline or from the bus, without a statement
\* failure
IngestStep(e) ==
  /\ now' = now /\ hist'.ev = Some(e) /\ ~hist'.fault
  /\ hist'.op = "consume" => busQ' # busQ

\* C37 empty delivery identifier: ingesting an event without delivery
\* identifier leaves the audit table as it is; when its repository maps to a
\* project, the issue of an issues event is upserted and the two pending jobs
\* are appended, at the first such delivery and at every repetition of it.
C37_EmptyDeliveryID ==
  [][\A req \in EdgeRequests :
       LET e == UnmarshalEvent(MarshalEvent(ReceivedEvent(req)))
           pid == IngestProjectID(e, FALSE)
           pl == UnmarshalIngest(e.Payload)
       IN (req.delivery = "" /\ IngestStep(e))
          => /\ github_events' = github_events
             /\ pid # None
                => /\ sync_jobs' = sync_jobs \o JobPair(pid, now)
                   /\ (e.Event = "issues" /\ pl.Issue # Absent)
                      => \E r \in IssuesOf(github_issues', pid, pl.Issue[1].id) :
                           /\ r.number = pl.Issue[1].number
                           /\ r.state = pl.Issue[1].state
                           /\ r.last_seen_at = now]_vars

\* two deliveries without identifier were ingested: four jobs, the issue row,
\* and still no audit row
C37_Witness ==
  /\ hist.ev # Absent /\ hist.ev[1].DeliveryID = "" /\ hist.again
  /\ github_events = {}
  /\ Len(sync_jobs) = 4
  /\ IssuesOf(github_issues, "p1", WI_open.id) # {}

\* the event types a delivery may carry
EventTypes == {"issues", "pull_request", "pull_request_review", "push", "ping"}

\* the requests of EdgeRequests with a delivery identifier whose repository
\* name is empty or matches no registered project
Unmapped ==
  {req \in EdgeRequests :
     /\ req.delivery # ""
     /\ \A p \in Projects : p.github_full_name # IngestRepoFullName(ReceivedEvent(req))}

\* ingesting e, or e under any other event type, touches no snapshot table
\* and appends no job
NoSnapshotNoJobs(e) ==
  /\ github_issues' = github_issues
  /\ github_pull_requests' = github_pull_requests
  /\ sync_jobs' = sync_jobs
  /\ \A evt \in EventTypes :
       LET db == Ingest(DB, [e EXCEPT !.Event = evt], now, NoFault)
       IN db.issues = github_issues /\ db.prs = github_pull_requests
          /\ db.jobs = sync_jobs

\* C38 as stated: ingesting an event with a delivery identifier whose
\* repository name is empty or matches no registered project leaves one audit
\* row of that identifier, with a null project reference, and causes no
\* snapshot upsert and no job creation, whatever the event type.
C38_UnmappedAudited ==
  [][\A req \in Unmapped :
       LET e == UnmarshalEvent(MarshalEvent(ReceivedEvent(req)))
       IN IngestStep(e)
          => /\ Cardinality(EventsOf(github_events', req.delivery)) = 1
             /\ \A r \in EventsOf(github_events', req.delivery) : r.project_id = None
             /\ NoSnapshotNoJobs(e)]_vars

\* C38 amended: the same for an event whose payload is JSON; an event whose
\* payload is not JSON (its repository name is then empty) writes no audit
\* row at all, and causes no snapshot upsert and no job creation either.
C38_UnmappedRepository ==
  [][\A req \in Unmapped :
       LET e == UnmarshalEvent(MarshalEvent(ReceivedEvent(req)))
       IN IngestStep(e)
          => /\ IF IsJSON(e.Payload)
                THEN /\ Cardinality(EventsOf(github_events', req.delivery)) = 1
                     /\ \A r \in EventsOf(github_events', req.delivery) :
                          r.project_id = None
                ELSE github_events' = github_events
             /\ NoSnapshotNoJobs(e)]_vars

\* the deliveries for the unregistered repository and for no repository have
\* their audit rows, the body that is not JSON was ingested last and has
\* none, and nothing else was stored
C38_Witness ==
  /\ hist.ev # Absent /\ hist.ev[1].DeliveryID = "d-2" /\ ~hist.fault
  /\ \E r \in github_events : r.delivery_id = "d-4" /\ r.project_id = None
  /\ \E r \in github_events : r.delivery_id = "d-5" /\ r.project_id = None
  /\ ~HasAuditRow("d-2")
  /\ github_issues = {} /\ github_pull_requests = {} /\ sync_jobs = <<>>

\* the error a failed credential resolution returns; the model has one such
\* outcome for the three causes (project row, linked account, token), each of
\* which is a return of runJob before its switch
CredentialErr == "github_not_linked"

\* C39 credential resolution failure: when runJob fails to resolve the
\* credential of a claimed job, the run ends there with the error, having made
\* no list call and no comment call and changed no snapshot row, and the
\* final UPDATE, the database executing it, marks the job 'failed' with the
\* error text in last_error and attempts raised by one.
C39_CredentialFailure ==
  [][\A w \in Workers :
       LET wk == workers[w]
       IN /\ (wk.pc = "run" /\ workers'[w].pc # "run" /\ workers'[w].pc # "page")
             => /\ Aborted(w, CredentialErr)
                /\ workers'[w].calls = <<>> /\ workers'[w].ccalls = <<>>
                /\ github_issues' = github_issues
                /\ github_pull_requests' = github_pull_requests
          /\ (wk.pc = "finish" /\ wk.err = CredentialErr /\ Finish(w, FALSE))
             => /\ wk.calls = <<>> /\ wk.ccalls = <<>>
                /\ github_issues' = github_issues
                /\ github_pull_requests' = github_pull_requests
                /\ sync_jobs'[wk.job].status = "failed"
                /\ sync_jobs'[wk.job].last_error = CredentialErr
                /\ sync_jobs'[wk.job].attempts = sync_jobs[wk.job].attempts + 1]_vars

\* both jobs of a trigger failed at the credential: the snapshot is empty and
\* the worker is idle again
C39_Witness ==
  /\ Len(sync_jobs) = 2
  /\ \A j \in 1..Len(sync_jobs) :
       sync_jobs[j].status = "failed" /\ sync_jobs[j].last_error = CredentialErr
  /\ github_issues = {} /\ github_pull_requests = {}
  /\ workers[1].pc = "idle"
====
